---- MODULE Spec2Model ----
(***************************************************************************)
(* bee-threads: worker pool (pool.ts), task engine and retry controller    *)
(* (execution.js), request coalescer (coalescing.ts), stream engine        *)
(* (stream-executor.js), turbo map / reduce (turbo.ts).  The host is a single JavaScript thread: every action   *)
(* below is one event-loop callback run to completion, together with the   *)
(* promise continuations it makes runnable (micro-tasks run before the     *)
(* next timer, message or exit event).                                      *)
(***************************************************************************)
EXTENDS Integers, Sequences, FiniteSets, TLC

\* ------------------------------------------------------------------ bounds
MaxTasks == 3            \* submissions made by the callers
MaxPoolSize == 2         \* largest config.poolSize explored
MaxTempWorkers == 1      \* largest config.maxTemporaryWorkers explored
MaxQueueBound == 2       \* largest config.maxQueueSize explored
MaxAttemptsBound == 3    \* largest retry.maxAttempts explored
MaxRetryTasks == 2       \* submissions made in the retry specification
MaxStreams == 2          \* stream executions started by the callers
MaxChunks == 3           \* largest number of chunks of a turbo operation
MaxWorkers == 4          \* workers created in the warmup specifications
MaxWarmTasks == 2        \* submissions made in the warmup specification
MaxSeqTasks == 4         \* submissions made one at a time
MaxAffinityTasks == 4   \* submissions made in the affinity specification
MaxIdleTasks == 3       \* submissions made in the idle-timer specification
MaxReplyTasks == 3      \* submissions made in the reply specification
MaxStray == 1           \* late messages a worker has posted and not delivered
MaxCalls == 3            \* coalesce() calls made by the callers

\* -------------------------------------------------------- program constants
AffinityCap == 50        \* entry.cachedFunctions is cleared at this size

PoolTypes == {"normal", "generator"}
Priorities == {"high", "normal", "low"}
FnHashes == {"f", "g"}   \* fastHash(fn.toString()) of the callables submitted
NoHash == "null"         \* fnHash = null
NoWorker == 0

VARIABLES
  config,        \* config: poolSize, maxQueueSize, maxTemporaryWorkers, ...
  pools,         \* pools[poolType]: the pool array, a sequence of entries
  poolCounters,  \* poolCounters[poolType]: [busy, idle]
  queues,        \* queues[poolType]: [high, normal, low] FIFO bands of waiters
  metrics,       \* metrics counter bag
  workers,       \* every Worker created so far with its WorkerEntry fields
  tasks,         \* one record per execute() call of the callers
  streams,       \* one record per stream execute(): closure state and reader
  turbo,         \* the turbo operation of the caller and its chunks
  coalescer      \* coalescing.ts module state, its callers and their futures

poolVars ==
  <<config, pools, poolCounters, queues, metrics, workers, tasks, streams,
    turbo>>
vars == <<poolVars, coalescer>>

\* coalescing.ts at load: empty maps, coalescing enabled, counters at zero;
\* promises are the futures made by the factories, calls the coalesce() calls
NewCoalescer ==
  [inFlightPromises |-> {}, coalescingEnabled |-> TRUE,
   coalescedCount |-> 0, uniqueCount |-> 0,
   nonDeterministicCache |-> <<>>,
   promises |-> <<>>, calls |-> <<>>]

\* The mutable state as one record, so that the functions of the source can
\* be written as operators from state to state.
State ==
  [pools |-> pools, poolCounters |-> poolCounters, queues |-> queues,
   metrics |-> metrics, workers |-> workers, tasks |-> tasks,
   streams |-> streams, turbo |-> turbo]

\* A Worker that has exited, is in no pool array and is held by no unsettled
\* task is unreachable from the program: its record is collected.
Collected ==
  [state |-> "exited", poolType |-> "normal", temporary |-> FALSE,
   busy |-> FALSE, tasksExecuted |-> 0, failedTasks |-> 0,
   terminationTimer |-> FALSE, cachedFunctions |-> {}, timedOut |-> FALSE,
   poolExitListener |-> FALSE, outbox |-> <<>>]

Reachable(s, w) ==
  \/ s.workers[w].state # "exited"
  \/ \E pt \in DOMAIN s.pools : \E i \in 1..Len(s.pools[pt]) :
       s.pools[pt][i] = w
  \/ \E t \in DOMAIN s.tasks :
       s.tasks[t].st = "running" /\ s.tasks[t].worker = w

NoError == <<>>          \* firstError = null

QueueFull == <<"QUEUE_FULL", 0>>   \* the QueueFullError of requestWorker

\* no turbo operation started: the closure state of executeTurboRegularArray
\* / executeTurboReduce once one is (chunk bounds, chunk futures, fail-fast
\* flag and first error, settled result)
NewTurbo ==
  [phase |-> "idle", kind |-> "map", data |-> <<>>, fn |-> "none",
   initialValue |-> <<>>, chunkBounds |-> <<>>, chunks |-> <<>>,
   aborted |-> FALSE, firstError |-> NoError, result |-> <<>>,
   error |-> NoError]

\* `await Promise.all(workerRequests)` resumes once every request of the
\* batch has resolved; the dispatch loop then attaches the listeners of every
\* chunk and posts its message
turboContinue(s) ==
  IF /\ s.turbo.phase = "acquiring"
     /\ \A i \in 1..Len(s.turbo.chunks) :
          s.tasks[s.turbo.chunks[i].task].st = "running"
  THEN [s EXCEPT !.turbo.phase = "running",
                 !.turbo.chunks = [i \in 1..Len(@) |->
                                     [@[i] EXCEPT !.st = "pending"]]]
  ELSE s

Commit(s0) ==
  LET s == turboContinue(s0) IN
  /\ turbo' = s.turbo
  /\ pools' = s.pools
  /\ poolCounters' = s.poolCounters
  /\ queues' = s.queues
  /\ metrics' = s.metrics
  /\ workers' = [w \in DOMAIN s.workers |->
                   IF Reachable(s, w) THEN s.workers[w] ELSE Collected]
  /\ tasks' = s.tasks
  /\ streams' = s.streams
  /\ UNCHANGED <<config, coalescer>>

\* ------------------------------------------------------------------ helpers
Min(S) == CHOOSE x \in S : \A y \in S : x <= y

RECURSIVE SumOver(_, _)
SumOver(f, S) ==
  IF S = {} THEN 0
  ELSE LET x == CHOOSE y \in S : TRUE IN f[x] + SumOver(f, S \ {x})

\* Array.prototype.splice(idx, 1)
Splice(seq, idx) ==
  SubSeq(seq, 1, idx - 1) \o SubSeq(seq, idx + 1, Len(seq))

\* index of an entry in a pool array, 0 when absent (the raw indexOf loops)
IndexOf(seq, x) ==
  IF \E i \in 1..Len(seq) : seq[i] = x
  THEN Min({i \in 1..Len(seq) : seq[i] = x})
  ELSE 0

\* ------------------------------------------------------------ worker handles
\* new Worker(script, options): state "online"; terminate() or a crash makes
\* it "terminating" (its 'exit' event is pending); "exited" once the 'exit'
\* event has been emitted.
NewWorker(poolType, temporary) ==
  [state |-> "online", poolType |-> poolType, temporary |-> temporary,
   busy |-> FALSE, tasksExecuted |-> 0, failedTasks |-> 0,
   terminationTimer |-> FALSE, cachedFunctions |-> {}, timedOut |-> FALSE,
   poolExitListener |-> ~temporary, outbox |-> <<>>]

\* a terminate() that has no effect
terminate_Noop(s, w) == s

\* worker.terminate(): asynchronous, the 'exit' event comes later
terminate(s, w) ==
  IF s.workers[w].state = "online"
  THEN [s EXCEPT !.workers[w].state = "terminating"]
  ELSE s

\* createWorkerEntry: a new pooled worker, counted idle
createWorkerEntry(s, poolType) ==
  [s EXCEPT !.workers = Append(@, NewWorker(poolType, FALSE)),
            !.poolCounters[poolType].idle = @ + 1]

\* an 'exit' listener that drops the entry and leaves the counters alone
poolExitHandler_NoCount(s, w) ==
  LET pt == s.workers[w].poolType
      idx == IndexOf(s.pools[pt], w)
  IN IF idx # 0 THEN [s EXCEPT !.pools[pt] = Splice(@, idx)] ELSE s

\* an 'exit' listener that fixes the counters and keeps the entry in the pool
poolExitHandler_KeepEntry(s, w) ==
  LET pt == s.workers[w].poolType
      idx == IndexOf(s.pools[pt], w)
  IN IF idx # 0
     THEN IF s.workers[w].busy
          THEN [s EXCEPT !.poolCounters[pt].busy = @ - 1]
          ELSE [s EXCEPT !.poolCounters[pt].idle = @ - 1]
     ELSE s

\* the 'exit' listener installed by createWorkerEntry
poolExitHandler(s, w) ==
  LET pt == s.workers[w].poolType
      idx == IndexOf(s.pools[pt], w)
  IN IF idx # 0
     THEN IF s.workers[w].busy
          THEN [s EXCEPT !.pools[pt] = Splice(@, idx),
                         !.poolCounters[pt].busy = @ - 1]
          ELSE [s EXCEPT !.pools[pt] = Splice(@, idx),
                         !.poolCounters[pt].idle = @ - 1]
     ELSE s

\* scheduleIdleTimeout: (re)arms the idle-reclamation timer of an entry
scheduleIdleTimeout(s, w) ==
  IF ~config.workerIdleTimeout THEN s
  ELSE [s EXCEPT !.workers[w].terminationTimer = TRUE]

\* -------------------------------------------------------------- acquisition
\* warmupPool that creates min(poolSize, count) entries whatever the pool holds
warmupPool_IgnoreLength(s, poolType, count) ==
  LET poolSizeLimit == IF config.poolSize < count THEN config.poolSize
                       ELSE count
      toCreate == poolSizeLimit
      RECURSIVE create(_, _)
      create(s0, i) ==
        IF i >= toCreate THEN s0
        ELSE create([createWorkerEntry(s0, poolType)
                       EXCEPT !.pools[poolType] =
                                Append(@, Len(s0.workers) + 1)], i + 1)
  IN create(s, 0)

\* warmupPool(poolType, count): pre-creates idle entries up to
\* min(poolSize, count)
warmupPool(s, poolType, count) ==
  LET poolSizeLimit == IF config.poolSize < count THEN config.poolSize
                       ELSE count
      toCreate == poolSizeLimit - Len(s.pools[poolType])
      RECURSIVE create(_, _)
      create(s0, i) ==
        IF i >= toCreate THEN s0
        ELSE create([createWorkerEntry(s0, poolType)
                       EXCEPT !.pools[poolType] =
                                Append(@, Len(s0.workers) + 1)], i + 1)
  IN create(s, 0)

\* a markBusy that leaves the pending idle timer armed
markBusy_KeepTimer(s, poolType, w) ==
  [s EXCEPT !.workers[w].busy = TRUE,
            !.poolCounters[poolType].busy = @ + 1,
            !.poolCounters[poolType].idle = @ - 1]

\* markBusy: the common tail of strategies 1 and 2
markBusy(s, poolType, w) ==
  [s EXCEPT !.workers[w].busy = TRUE,
            !.workers[w].terminationTimer = FALSE,
            !.poolCounters[poolType].busy = @ + 1,
            !.poolCounters[poolType].idle = @ - 1]

\* a strategy 1 scan that returns the last matching idle entry
affinityIdle_LastMatch(s, poolType, fnHash) ==
  LET pool == s.pools[poolType]
      hit == {i \in 1..Len(pool) :
                /\ ~s.workers[pool[i]].busy
                /\ fnHash \in s.workers[pool[i]].cachedFunctions}
  IN IF hit = {} THEN NoWorker ELSE pool[CHOOSE i \in hit : \A j \in hit : j <= i]

\* a strategy 2 that never finds an idle entry
leastUsedIdle_None(s, poolType) == NoWorker

\* a strategy 2 that takes the first idle entry whatever its count
leastUsedIdle_FirstIdle(s, poolType) ==
  LET pool == s.pools[poolType]
      idle == {i \in 1..Len(pool) : ~s.workers[pool[i]].busy}
  IN IF idle = {} THEN NoWorker ELSE pool[Min(idle)]

\* strategy 2 scan: the first idle entry with tasksExecuted = 0, else the
\* first idle entry with the lowest tasksExecuted; 0 when none is idle
leastUsedIdle(s, poolType) ==
  LET pool == s.pools[poolType]
      idle == {i \in 1..Len(pool) : ~s.workers[pool[i]].busy}
      fresh == {i \in idle : s.workers[pool[i]].tasksExecuted = 0}
      least == {i \in idle : \A j \in idle :
                  s.workers[pool[i]].tasksExecuted
                    <= s.workers[pool[j]].tasksExecuted}
  IN IF idle = {} THEN NoWorker
     ELSE IF fresh # {} THEN pool[Min(fresh)]
     ELSE pool[Min(least)]

\* strategy 1 scan: the first idle entry whose affinity set has fnHash
affinityIdle(s, poolType, fnHash) ==
  LET pool == s.pools[poolType]
      hit == {i \in 1..Len(pool) :
                /\ ~s.workers[pool[i]].busy
                /\ fnHash \in s.workers[pool[i]].cachedFunctions}
  IN IF hit = {} THEN NoWorker ELSE pool[Min(hit)]

\* strategy 3 with the new entry left idle in the pool
growPool_BornIdle(s, poolType) ==
  [createWorkerEntry(s, poolType)
     EXCEPT !.pools[poolType] = Append(@, Len(s.workers) + 1)]

\* strategy 3: a new pooled entry, born busy
growPool(s, poolType) ==
  [createWorkerEntry(s, poolType)
     EXCEPT !.workers[Len(s.workers) + 1].busy = TRUE,
            !.poolCounters[poolType].idle = @ - 1,
            !.poolCounters[poolType].busy = @ + 1,
            !.pools[poolType] = Append(@, Len(s.workers) + 1)]

\* getWorker: returns [s, worker, temporary]; worker = NoWorker is "null"
getWorker(s, poolType, fnHash) ==
  LET tryAffinity == fnHash # NoHash /\ s.poolCounters[poolType].idle > 0
      aff == IF tryAffinity THEN affinityIdle(s, poolType, fnHash)
             ELSE NoWorker
  IN
  IF aff # NoWorker
  THEN [s |-> [markBusy(s, poolType, aff)
                 EXCEPT !.metrics.affinityHits = @ + 1],
        worker |-> aff, temporary |-> FALSE]
  ELSE
    LET s1 == IF tryAffinity
              THEN [s EXCEPT !.metrics.affinityMisses = @ + 1]
              ELSE s
        sel == IF s1.poolCounters[poolType].idle > 0
               THEN leastUsedIdle(s1, poolType)
               ELSE NoWorker
        newId == Len(s1.workers) + 1
    IN
    IF sel # NoWorker
    THEN [s |-> markBusy(s1, poolType, sel),
          worker |-> sel, temporary |-> FALSE]
    ELSE IF Len(s1.pools[poolType]) < config.poolSize
    THEN [s |-> growPool(s1, poolType),
          worker |-> newId, temporary |-> FALSE]
    ELSE IF s1.metrics.activeTemporaryWorkers < config.maxTemporaryWorkers
    THEN [s |-> [s1 EXCEPT
                   !.workers = Append(@, NewWorker(poolType, TRUE)),
                   !.metrics.temporaryWorkersCreated = @ + 1,
                   !.metrics.activeTemporaryWorkers = @ + 1],
          worker |-> newId, temporary |-> TRUE]
    ELSE [s |-> s1, worker |-> NoWorker, temporary |-> FALSE]

\* ------------------------------------------------------------------- queue
getQueueLength(queue) ==
  Len(queue.high) + Len(queue.normal) + Len(queue.low)

\* dequeueTask that scans the bands from low to high
dequeueTask_LowFirst(queue) ==
  IF Len(queue.low) > 0
  THEN [task |-> Head(queue.low),
        queue |-> [queue EXCEPT !.low = Tail(@)]]
  ELSE IF Len(queue.normal) > 0
  THEN [task |-> Head(queue.normal),
        queue |-> [queue EXCEPT !.normal = Tail(@)]]
  ELSE IF Len(queue.high) > 0
  THEN [task |-> Head(queue.high),
        queue |-> [queue EXCEPT !.high = Tail(@)]]
  ELSE [task |-> 0, queue |-> queue]

\* dequeueTask: [task, queue]; task = 0 is "null"
dequeueTask(queue) ==
  IF Len(queue.high) > 0
  THEN [task |-> Head(queue.high),
        queue |-> [queue EXCEPT !.high = Tail(@)]]
  ELSE IF Len(queue.normal) > 0
  THEN [task |-> Head(queue.normal),
        queue |-> [queue EXCEPT !.normal = Tail(@)]]
  ELSE IF Len(queue.low) > 0
  THEN [task |-> Head(queue.low),
        queue |-> [queue EXCEPT !.low = Tail(@)]]
  ELSE [task |-> 0, queue |-> queue]

\* enqueue at the front of the band (unshift instead of push)
enqueueTask_Unshift(queue, priority, t) ==
  LET queuePriority == IF priority \in Priorities THEN priority ELSE "normal"
  IN [queue EXCEPT ![queuePriority] = <<t>> \o @]

\* queue[queuePriority].push(task)
enqueueTask(queue, priority, t) ==
  LET queuePriority == IF priority \in Priorities THEN priority ELSE "normal"
  IN [queue EXCEPT ![queuePriority] = Append(@, t)]

\* --------------------------------------------------------------- dispatch
\* executeOnce after the acquisition resolved: handlers, timer, postMessage
dispatch(s, t, w, temporary, via) ==
  [s EXCEPT !.tasks[t].st = "running",
            !.tasks[t].worker = w,
            !.tasks[t].temporary = temporary,
            !.tasks[t].via = via]

\* ----------------------------------------------------------------- release
\* releaseWorker that returns a pooled entry to the idle set without looking
\* at the queue
releaseWorker_NoHandoff(s, w, temporary, poolType, failed, fnHash, terminated) ==
  IF temporary
  THEN terminate([s EXCEPT !.metrics.activeTemporaryWorkers = @ - 1,
                           !.metrics.temporaryWorkerTasks = @ + 1], w)
  ELSE scheduleIdleTimeout(
         [s EXCEPT !.workers[w].tasksExecuted = @ + 1,
                   !.workers[w].failedTasks = IF failed THEN @ + 1 ELSE @,
                   !.workers[w].cachedFunctions = @ \cup {fnHash},
                   !.workers[w].busy = FALSE,
                   !.poolCounters[poolType].busy = @ - 1,
                   !.poolCounters[poolType].idle = @ + 1], w)

\* releaseWorker that counts the entry idle when it hands it to a waiter
releaseWorker_CountHandoff(s, w, temporary, poolType, failed, fnHash, terminated) ==
  IF temporary
  THEN LET s1 == [s EXCEPT !.metrics.activeTemporaryWorkers = @ - 1,
                           !.metrics.temporaryWorkerTasks = @ + 1]
       IN IF ~terminated THEN terminate(s1, w) ELSE s1
  ELSE
    LET s1 == [s EXCEPT !.workers[w].tasksExecuted = @ + 1,
                        !.workers[w].failedTasks =
                           IF failed THEN @ + 1 ELSE @]
    IN
    IF terminated
    THEN LET idx == IndexOf(s1.pools[poolType], w)
             s2 == [s1 EXCEPT !.workers[w].terminationTimer = FALSE]
         IN IF idx # 0
            THEN IF s2.workers[w].busy
                 THEN [s2 EXCEPT !.pools[poolType] = Splice(@, idx),
                                 !.poolCounters[poolType].busy = @ - 1]
                 ELSE [s2 EXCEPT !.pools[poolType] = Splice(@, idx),
                                 !.poolCounters[poolType].idle = @ - 1]
            ELSE s2
    ELSE
      LET s2 == IF fnHash # NoHash /\ ~config.lowMemoryMode
                THEN [s1 EXCEPT !.workers[w].cachedFunctions =
                        (IF Cardinality(@) >= AffinityCap THEN {} ELSE @)
                          \cup {fnHash}]
                ELSE s1
          dq == dequeueTask(s2.queues[poolType])
          s3 == [s2 EXCEPT !.queues[poolType] = dq.queue]
      IN
      IF dq.task # 0 /\ s3.workers[w].busy
      THEN dispatch([s3 EXCEPT !.workers[w].terminationTimer = FALSE,
                               !.poolCounters[poolType].busy = @ - 1,
                               !.poolCounters[poolType].idle = @ + 1],
                    dq.task, w, FALSE, "handoff")
      ELSE IF s3.workers[w].busy
      THEN scheduleIdleTimeout(
             [s3 EXCEPT !.workers[w].busy = FALSE,
                        !.poolCounters[poolType].busy = @ - 1,
                        !.poolCounters[poolType].idle = @ + 1], w)
      ELSE s3

\* releaseWorker(entry, worker, temporary, poolType, executionTime, failed,
\* fnHash, terminated); execution times are not modelled
releaseWorker(s, w, temporary, poolType, failed, fnHash, terminated) ==
  IF temporary
  THEN LET s1 == [s EXCEPT !.metrics.activeTemporaryWorkers = @ - 1,
                           !.metrics.temporaryWorkerTasks = @ + 1]
       IN IF ~terminated THEN terminate(s1, w) ELSE s1
  ELSE
    LET s1 == [s EXCEPT !.workers[w].tasksExecuted = @ + 1,
                        !.workers[w].failedTasks =
                           IF failed THEN @ + 1 ELSE @]
    IN
    IF terminated
    THEN LET idx == IndexOf(s1.pools[poolType], w)
             s2 == [s1 EXCEPT !.workers[w].terminationTimer = FALSE]
         IN IF idx # 0
            THEN IF s2.workers[w].busy
                 THEN [s2 EXCEPT !.pools[poolType] = Splice(@, idx),
                                 !.poolCounters[poolType].busy = @ - 1]
                 ELSE [s2 EXCEPT !.pools[poolType] = Splice(@, idx),
                                 !.poolCounters[poolType].idle = @ - 1]
            ELSE s2
    ELSE
      LET s2 == IF fnHash # NoHash /\ ~config.lowMemoryMode
                THEN [s1 EXCEPT !.workers[w].cachedFunctions =
                        (IF Cardinality(@) >= AffinityCap THEN {} ELSE @)
                          \cup {fnHash}]
                ELSE s1
          dq == dequeueTask(s2.queues[poolType])
          s3 == [s2 EXCEPT !.queues[poolType] = dq.queue]
      IN
      IF dq.task # 0 /\ s3.workers[w].busy
      THEN dispatch([s3 EXCEPT !.workers[w].terminationTimer = FALSE],
                    dq.task, w, FALSE, "handoff")
      ELSE IF s3.workers[w].busy
      THEN scheduleIdleTimeout(
             [s3 EXCEPT !.workers[w].busy = FALSE,
                        !.poolCounters[poolType].busy = @ - 1,
                        !.poolCounters[poolType].idle = @ + 1], w)
      ELSE s3

\* requestWorker with the bound compared by > instead of >=
requestWorker_OffByOne(s, poolType, priority, fnHash, t) ==
  LET result == getWorker(s, poolType, fnHash)
  IN IF result.worker # NoWorker
     THEN [s |-> result.s, kind |-> "granted",
           worker |-> result.worker, temporary |-> result.temporary]
     ELSE IF getQueueLength(result.s.queues[poolType]) > config.maxQueueSize
     THEN [s |-> result.s, kind |-> "rejected",
           worker |-> NoWorker, temporary |-> FALSE]
     ELSE [s |-> [result.s EXCEPT !.queues[poolType] =
                    enqueueTask(@, priority, t)],
           kind |-> "queued", worker |-> NoWorker, temporary |-> FALSE]

\* requestWorker for the waiter t: [s, kind, worker, temporary] with kind
\* "granted" (resolved promise), "queued" or "rejected" (QueueFullError)
requestWorker(s, poolType, priority, fnHash, t) ==
  LET result == getWorker(s, poolType, fnHash)
  IN IF result.worker # NoWorker
     THEN [s |-> result.s, kind |-> "granted",
           worker |-> result.worker, temporary |-> result.temporary]
     ELSE IF getQueueLength(result.s.queues[poolType]) >= config.maxQueueSize
     THEN [s |-> result.s, kind |-> "rejected",
           worker |-> NoWorker, temporary |-> FALSE]
     ELSE [s |-> [result.s EXCEPT !.queues[poolType] =
                    enqueueTask(@, priority, t)],
           kind |-> "queued", worker |-> NoWorker, temporary |-> FALSE]

\* ------------------------------------------------------------- task engine
NewTask ==
  [st |-> "new", poolType |-> "normal", priority |-> "normal", fn |-> "f",
   safe |-> FALSE, timeout |-> FALSE, signal |-> "none", maxAttempts |-> 0,
   attempt |-> 0, worker |-> NoWorker, temporary |-> FALSE, via |-> "none",
   outcome |-> "pending", error |-> "none", caller |-> "execute"]

\* executeOnce that wraps only the success in safe mode
executeOnceOutcome_ThrowOnFailure(safe, isSuccess) ==
  IF isSuccess
  THEN IF safe THEN "status_fulfilled" ELSE "value"
  ELSE "throw"

\* what the promise of executeOnce settles with: the plain value, a thrown
\* error, or in safe mode a {status: ...} wrapper
executeOnceOutcome(safe, isSuccess) ==
  IF safe
  THEN IF isSuccess THEN "status_fulfilled" ELSE "status_rejected"
  ELSE IF isSuccess THEN "value" ELSE "throw"

\* execute that treats ABORTED and TIMEOUT like any other failure
execute_RetryAll(s, t, isSuccess, error) ==
  LET tk == s.tasks[t]
      done(outcome) ==
        [s EXCEPT !.tasks[t] =
           [NewTask EXCEPT !.st = "done", !.outcome = outcome,
                           !.error = error, !.safe = tk.safe,
                           !.maxAttempts = tk.maxAttempts,
                           !.attempt = tk.attempt]]
  IN
  IF tk.maxAttempts = 0
  THEN done(executeOnceOutcome(tk.safe, isSuccess))
  ELSE IF isSuccess
  THEN done(IF tk.safe THEN "status_fulfilled" ELSE "value")
  ELSE IF tk.attempt < tk.maxAttempts - 1
  THEN [s EXCEPT !.tasks[t].st = "sleeping",
                 !.tasks[t].error = error,
                 !.metrics.totalRetries = @ + 1]
  ELSE done(IF tk.safe THEN "status_rejected" ELSE "throw")

\* execute whose loop allows one attempt too many
execute_ExtraAttempt(s, t, isSuccess, error) ==
  LET tk == s.tasks[t]
      done(outcome) ==
        [s EXCEPT !.tasks[t] =
           [NewTask EXCEPT !.st = "done", !.outcome = outcome,
                           !.error = error, !.safe = tk.safe,
                           !.maxAttempts = tk.maxAttempts,
                           !.attempt = tk.attempt]]
  IN
  IF tk.maxAttempts = 0
  THEN done(executeOnceOutcome(tk.safe, isSuccess))
  ELSE IF isSuccess
  THEN done(IF tk.safe THEN "status_fulfilled" ELSE "value")
  ELSE IF error \in {"ABORTED", "TIMEOUT"}
  THEN done(IF tk.safe THEN "status_rejected" ELSE "throw")
  ELSE IF tk.attempt < tk.maxAttempts
  THEN [s EXCEPT !.tasks[t].st = "sleeping",
                 !.tasks[t].error = error,
                 !.metrics.totalRetries = @ + 1]
  ELSE done(IF tk.safe THEN "status_rejected" ELSE "throw")

\* execute: what the caller of execute() gets once its executeOnce call has
\* settled; with retry enabled this is one turn of the for loop
execute(s, t, isSuccess, error) ==
  LET tk == s.tasks[t]
      retryEnabled == tk.maxAttempts > 0
      once == executeOnceOutcome(IF retryEnabled THEN FALSE ELSE tk.safe,
                                 isSuccess)
      \* the promise settles; the options and the worker reference of the
      \* call are dropped with its closure
      done(outcome) ==
        [s EXCEPT !.tasks[t] =
           [NewTask EXCEPT !.st = "done", !.outcome = outcome,
                           !.error = error, !.safe = tk.safe,
                           !.maxAttempts = tk.maxAttempts,
                           !.attempt = tk.attempt]]
  IN
  IF ~retryEnabled THEN done(once)
  ELSE IF once = "value"
  THEN done(IF tk.safe THEN "status_fulfilled" ELSE "value")
  ELSE IF error \in {"ABORTED", "TIMEOUT"}
  THEN done(IF tk.safe THEN "status_rejected" ELSE "throw")
  ELSE IF tk.attempt < tk.maxAttempts - 1
  THEN [s EXCEPT !.tasks[t].st = "sleeping",
                 !.tasks[t].error = error,
                 !.metrics.totalRetries = @ + 1]
  ELSE done(IF tk.safe THEN "status_rejected" ELSE "throw")

\* cleanup: clears the timer and the listeners (st leaves "running") and
\* releases the worker; execution.js passes no `terminated` argument
cleanup(s, t, failed) ==
  LET tk == s.tasks[t]
  IN releaseWorker([s EXCEPT !.tasks[t].st = "settled"],
                   tk.worker, tk.temporary, tk.poolType, failed, tk.fn,
                   FALSE)

\* a settle that counts every settlement as executed and, when it failed,
\* as failed too
settle_CountBoth(s, t, isSuccess, error) ==
  LET s1 == cleanup(s, t, ~isSuccess)
      s2 == IF isSuccess
            THEN [s1 EXCEPT !.metrics.totalTasksExecuted = @ + 1]
            ELSE [s1 EXCEPT !.metrics.totalTasksExecuted = @ + 1,
                            !.metrics.totalTasksFailed = @ + 1]
  IN execute(s2, t, isSuccess, error)

\* settle: single shot (guarded by st = "running" in the callers)
settle(s, t, isSuccess, error) ==
  LET s1 == cleanup(s, t, ~isSuccess)
      s2 == IF isSuccess
            THEN [s1 EXCEPT !.metrics.totalTasksExecuted = @ + 1]
            ELSE [s1 EXCEPT !.metrics.totalTasksFailed = @ + 1]
  IN execute(s2, t, isSuccess, error)

\* executeOnce without the abort pre-check
executeOnce_NoPrecheck(s, t) ==
  LET tk == s.tasks[t]
      r == requestWorker(s, tk.poolType, tk.priority, tk.fn, t)
  IN IF r.kind = "granted"
     THEN dispatch(r.s, t, r.worker, r.temporary, "acquire")
     ELSE IF r.kind = "queued"
     THEN [r.s EXCEPT !.tasks[t].st = "queued"]
     ELSE execute(r.s, t, FALSE, "QUEUE_FULL")

\* executeOnce up to the dispatch: abort pre-check, then requestWorker
executeOnce(s, t) ==
  LET tk == s.tasks[t]
  IN IF tk.signal = "aborted"
     THEN execute(s, t, FALSE, "ABORTED")
     ELSE LET r == requestWorker(s, tk.poolType, tk.priority, tk.fn, t)
          IN IF r.kind = "granted"
             THEN dispatch(r.s, t, r.worker, r.temporary, "acquire")
             ELSE IF r.kind = "queued"
             THEN [r.s EXCEPT !.tasks[t].st = "queued"]
             ELSE execute(r.s, t, FALSE, "QUEUE_FULL")

\* the task whose listeners are attached to worker w (0 when none)
listenerOf(s, w) ==
  LET ts == {t \in DOMAIN s.tasks :
               /\ s.tasks[t].st = "running" /\ s.tasks[t].worker = w
               /\ s.tasks[t].caller = "execute"}
  IN IF ts = {} THEN 0 ELSE Min(ts)

\* ------------------------------------------------------------------ actions
Configs(poolSizes, temps, queueSizes, idleTimeouts) ==
  [poolSize : poolSizes, maxTemporaryWorkers : temps,
   maxQueueSize : queueSizes, workerIdleTimeout : idleTimeouts,
   minThreads : {0}, lowMemoryMode : {FALSE}]

InitState(n) ==
  /\ pools = [pt \in PoolTypes |-> <<>>]
  /\ poolCounters = [pt \in PoolTypes |-> [busy |-> 0, idle |-> 0]]
  /\ queues = [pt \in PoolTypes |-> [high |-> <<>>, normal |-> <<>>,
                                     low |-> <<>>]]
  /\ metrics = [totalTasksExecuted |-> 0, totalTasksFailed |-> 0,
                totalRetries |-> 0, temporaryWorkersCreated |-> 0,
                activeTemporaryWorkers |-> 0, temporaryWorkerTasks |-> 0,
                affinityHits |-> 0, affinityMisses |-> 0]
  /\ workers = <<>>
  /\ tasks = [t \in 1..n |-> NewTask]
  /\ streams = <<>>
  /\ turbo = NewTurbo
  /\ coalescer = NewCoalescer

Init ==
  /\ config \in Configs(1..MaxPoolSize, 0..MaxTempWorkers,
                        1..MaxQueueBound, {TRUE})
  /\ InitState(MaxTasks)

\* a caller calls execute(fn, args, options) with the options record o
Submit(t, o) ==
  /\ tasks[t].st = "new"
  /\ \A u \in DOMAIN tasks : u < t => tasks[u].st # "new"
  /\ Commit(executeOnce(
       [State EXCEPT !.tasks[t].priority = o.priority,
                     !.tasks[t].fn = o.fn,
                     !.tasks[t].safe = o.safe,
                     !.tasks[t].timeout = o.timeout,
                     !.tasks[t].signal = o.signal,
                     !.tasks[t].maxAttempts = o.maxAttempts], t))

\* the worker posts { ok: true, value } or { ok: false, error }
Reply(t, ok) ==
  /\ tasks[t].st = "running"
  /\ workers[tasks[t].worker].state = "online"
  /\ Commit(settle(State, t, ok, IF ok THEN "none" ELSE "WORKER"))

\* the timeout timer of a running task fires
Timeout(t) ==
  /\ tasks[t].st = "running"
  /\ tasks[t].timeout
  /\ LET w == tasks[t].worker
     IN Commit(settle(terminate([State EXCEPT !.workers[w].timedOut = TRUE],
                                w), t, FALSE, "TIMEOUT"))

\* the caller aborts the signal of a task; the abort listener exists only
\* between dispatch and settle
Abort(t) ==
  /\ tasks[t].signal = "live"
  /\ tasks[t].st \in {"queued", "running", "sleeping"}
  /\ LET s == [State EXCEPT !.tasks[t].signal = "aborted"]
     IN IF tasks[t].st = "running"
        THEN Commit(settle(terminate(s, tasks[t].worker), t, FALSE,
                           "ABORTED"))
        ELSE Commit(s)

\* the worker emits 'error' (uncaught exception); its 'exit' follows
WorkerError(t) ==
  /\ tasks[t].st = "running"
  /\ workers[tasks[t].worker].state = "online"
  /\ LET w == tasks[t].worker
     IN Commit(settle([State EXCEPT !.workers[w].state = "terminating"],
                      t, FALSE, "WORKER"))

\* new WorkerError(`Worker exited with code ${code}`)
ExitError(code) == "Worker exited with code " \o ToString(code)

\* the worker emits 'exit': the listener of createWorkerEntry runs first,
\* then onExit of the task attached to the worker
workerExit(s, w, code) ==
  LET s0 == [s EXCEPT !.workers[w].state = "exited"]
      s1 == IF s.workers[w].poolExitListener THEN poolExitHandler(s0, w)
            ELSE s0
      t == listenerOf(s1, w)
  IN IF t # 0 /\ code # 0
     THEN settle(s1, t, FALSE, ExitError(code))
     ELSE s1

WorkerExit(w, code) ==
  /\ w \in 1..Len(workers)
  /\ \/ workers[w].state = "online"
     \/ workers[w].state = "terminating" /\ code = 1
  /\ Commit(workerExit(State, w, code))

\* the idle-reclamation timer of an entry fires
IdleTimeout(w) ==
  /\ w \in 1..Len(workers)
  /\ workers[w].terminationTimer
  /\ LET pt == workers[w].poolType
         minToKeep == IF config.minThreads > 1 THEN config.minThreads ELSE 1
         s == [State EXCEPT !.workers[w].terminationTimer = FALSE]
     IN IF ~workers[w].busy /\ Len(pools[pt]) > minToKeep
        THEN Commit(terminate(s, w))
        ELSE Commit(s)

\* the backoff sleep of the retry loop ends: next attempt
Wake(t) ==
  /\ tasks[t].st = "sleeping"
  /\ Commit(executeOnce([State EXCEPT !.tasks[t].attempt = @ + 1], t))

Tasks == DOMAIN tasks
Workers == 1..Len(workers)

Options(priorities, fns, safes, timeouts, signals, attempts) ==
  [priority : priorities, fn : fns, safe : safes, timeout : timeouts,
   signal : signals, maxAttempts : attempts]

\* options of the submissions explored by the pool specification: every
\* priority with and without a timeout, a second callable, an abortable call
PoolOptions ==
  Options(Priorities, {"f"}, {FALSE}, BOOLEAN, {"none"}, {0})
    \cup Options({"normal"}, {"g"}, {FALSE}, {FALSE}, {"none"}, {0})
    \cup Options({"normal"}, {"f"}, {FALSE}, {FALSE}, {"live"}, {0})

Next ==
  \/ \E t \in Tasks, o \in PoolOptions : Submit(t, o)
  \/ \E t \in Tasks, ok \in BOOLEAN : Reply(t, ok)
  \/ \E t \in Tasks : Timeout(t)
  \/ \E t \in Tasks : Abort(t)
  \/ \E t \in Tasks : WorkerError(t)
  \/ \E w \in Workers, code \in {0, 1} : WorkerExit(w, code)
  \/ \E w \in Workers : IdleTimeout(w)

Spec == Init /\ [][Next]_vars

\* abortHandler: terminates the worker and settles; cleanup has removed it
\* from the signal once the call has settled
abortHandler(s, t) ==
  IF s.tasks[t].st # "running" THEN s
  ELSE settle(terminate([s EXCEPT !.tasks[t].signal = "aborted"],
                        s.tasks[t].worker), t, FALSE, "ABORTED")

\* the caller aborts the controller of a call that has already settled
LateAbort(t) ==
  /\ tasks[t].st = "done"
  /\ Commit(abortHandler(State, t))

\* One pooled worker and up to MaxTempWorkers temporary ones: every event of
\* a call, and aborts arriving after the settlement.
SettleInit ==
  /\ config \in Configs({1}, 0..MaxTempWorkers, {1}, {TRUE})
  /\ InitState(MaxTasks)

SettleNext ==
  \/ \E t \in Tasks, o \in PoolOptions : Submit(t, o)
  \/ \E t \in Tasks, ok \in BOOLEAN : Reply(t, ok)
  \/ \E t \in Tasks : Timeout(t)
  \/ \E t \in Tasks : Abort(t)
  \/ \E t \in Tasks : LateAbort(t)
  \/ \E t \in Tasks : WorkerError(t)
  \/ \E w \in Workers, code \in {0, 1} : WorkerExit(w, code)
  \/ \E w \in Workers : IdleTimeout(w)

SettleSpec == SettleInit /\ [][SettleNext]_vars

\* beeThreads.warmup(count): warmupPool, at any time
Warmup(poolType, count) ==
  /\ Len(workers) + count <= MaxWorkers
  /\ Commit(warmupPool(State, poolType, count))

\* The pool with warmup: submissions with and without a timeout, worker
\* events, idle timers and warmups of either pool.
WarmOptions ==
  Options({"normal"}, {"f"}, {FALSE}, BOOLEAN, {"none"}, {0})

WarmInit ==
  /\ config \in Configs(1..MaxPoolSize, 0..MaxTempWorkers, {1}, {TRUE})
  /\ InitState(MaxWarmTasks)

WarmNext ==
  \/ \E pt \in PoolTypes, count \in 1..(MaxPoolSize + 1) : Warmup(pt, count)
  \/ \E t \in Tasks, o \in WarmOptions : Submit(t, o)
  \/ \E t \in Tasks, ok \in BOOLEAN : Reply(t, ok)
  \/ \E t \in Tasks : Timeout(t)
  \/ \E t \in Tasks : WorkerError(t)
  \/ \E w \in Workers, code \in {0, 1} : WorkerExit(w, code)
  \/ \E w \in Workers : IdleTimeout(w)

WarmSpec == WarmInit /\ [][WarmNext]_vars

\* Tasks submitted one at a time, each awaited before the next is submitted
\* (the loop of the load-balancing test), to a pool that may have been
\* warmed up before the first task; with and without lowMemoryMode.
SeqOptions ==
  Options({"normal"}, {"f", "g", "h"}, {FALSE}, {FALSE}, {"none"}, {0})

SeqSubmit(t, o) ==
  /\ \A u \in Tasks : tasks[u].st \in {"new", "done"}
  /\ Submit(t, o)

SeqWarmup(count) ==
  /\ \A u \in Tasks : tasks[u].st = "new"
  /\ Warmup("normal", count)

SeqInit ==
  /\ config \in {[c EXCEPT !.lowMemoryMode = b] :
                   c \in Configs(1..MaxPoolSize, {0}, {1}, {TRUE}),
                   b \in BOOLEAN}
  /\ InitState(MaxSeqTasks)

SeqNext ==
  \/ \E count \in 1..(MaxPoolSize + 1) : SeqWarmup(count)
  \/ \E t \in Tasks, o \in SeqOptions : SeqSubmit(t, o)
  \/ \E t \in Tasks, ok \in BOOLEAN : Reply(t, ok)
  \/ \E t \in Tasks : WorkerError(t)
  \/ \E w \in Workers, code \in {0, 1} : WorkerExit(w, code)
  \/ \E w \in Workers : IdleTimeout(w)

SeqSpec == SeqInit /\ [][SeqNext]_vars

\* Two callables submitted at any time, also concurrently, to a pool of two
\* workers without temporary workers, with replies, exits and idle timers.
AffinityOptions ==
  Options({"normal"}, {"f", "g"}, {FALSE}, {FALSE}, {"none"}, {0})

AffinityInit ==
  /\ config \in Configs({MaxPoolSize}, {0}, {1}, {TRUE})
  /\ InitState(MaxAffinityTasks)

AffinityNext ==
  \/ \E t \in Tasks, o \in AffinityOptions : Submit(t, o)
  \/ \E t \in Tasks, ok \in BOOLEAN : Reply(t, ok)
  \/ \E w \in Workers, code \in {0, 1} : WorkerExit(w, code)
  \/ \E w \in Workers : IdleTimeout(w)

AffinitySpec == AffinityInit /\ [][AffinityNext]_vars

\* The idle timers: pools of one and two workers with every minThreads from
\* 0 to the pool size, submissions with and without a timeout, worker
\* events and the timers firing at any time.
IdleInit ==
  /\ config \in {[c EXCEPT !.minThreads = k] :
                   c \in Configs(1..MaxPoolSize, {0}, {1}, {TRUE}),
                   k \in 0..MaxPoolSize}
  /\ InitState(MaxIdleTasks)

IdleNext ==
  \/ \E t \in Tasks, o \in WarmOptions : Submit(t, o)
  \/ \E t \in Tasks, ok \in BOOLEAN : Reply(t, ok)
  \/ \E t \in Tasks : Timeout(t)
  \/ \E t \in Tasks : WorkerError(t)
  \/ \E w \in Workers, code \in {0, 1} : WorkerExit(w, code)
  \/ \E w \in Workers : IdleTimeout(w)

IdleSpec == IdleInit /\ [][IdleNext]_vars

\* The message channel of a worker: besides the reply of the request it is
\* running, the worker script posts { ok: false, error } from its
\* uncaughtException / unhandledRejection hooks, on behalf of code started by
\* a request that has already been answered. outbox holds the messages
\* posted by the hooks that the main thread has not received yet.
StrayPost(w) ==
  /\ workers[w].state = "online"
  /\ workers[w].tasksExecuted >= 1
  /\ Len(workers[w].outbox) < MaxStray
  /\ Commit([State EXCEPT !.workers[w].outbox =
               Append(@, [ok |-> FALSE, late |-> TRUE])])

\* the main thread receives the oldest message of the hooks: onMessage of
\* the call whose listener is attached to the worker, if any
StrayDeliver(w) ==
  /\ workers[w].outbox # <<>>
  /\ workers[w].state # "exited"
  /\ LET s == [State EXCEPT !.workers[w].outbox = Tail(@)]
         t == listenerOf(s, w)
     IN IF t # 0
        THEN Commit(settle(s, t, Head(workers[w].outbox).ok, "WORKER"))
        ELSE Commit(s)

ReplyOptions ==
  Options({"normal"}, {"f"}, {FALSE}, BOOLEAN, {"none"}, {0})

ReplyInit ==
  /\ config \in Configs({1}, {0}, {1}, {TRUE})
  /\ InitState(MaxReplyTasks)

ReplyNext ==
  \/ \E t \in Tasks, o \in ReplyOptions : Submit(t, o)
  \/ \E t \in Tasks, ok \in BOOLEAN : Reply(t, ok)
  \/ \E t \in Tasks : Timeout(t)
  \/ \E w \in Workers : StrayPost(w)
  \/ \E w \in Workers : StrayDeliver(w)
  \/ \E w \in Workers, code \in {0, 1} : WorkerExit(w, code)
  \/ \E w \in Workers : IdleTimeout(w)

ReplySpec == ReplyInit /\ [][ReplyNext]_vars

\* The contention scenario of the priority queue: one pooled worker, no
\* temporary workers, a queue that takes every submission.
QueueInit ==
  /\ config \in Configs({1}, {0}, {MaxTasks}, {TRUE})
  /\ InitState(MaxTasks + 1)

\* every priority, and a call with a timeout
QueueOptions ==
  Options(Priorities, {"f"}, {FALSE}, {FALSE}, {"none"}, {0})
    \cup Options({"normal"}, {"f"}, {FALSE}, {TRUE}, {"none"}, {0})

QueueNext ==
  \/ \E t \in Tasks, o \in QueueOptions : Submit(t, o)
  \/ \E t \in Tasks, ok \in BOOLEAN : Reply(t, ok)
  \/ \E t \in Tasks : Timeout(t)
  \/ \E t \in Tasks : WorkerError(t)
  \/ \E w \in Workers, code \in {0, 1} : WorkerExit(w, code)
  \/ \E w \in Workers : IdleTimeout(w)

QueueSpec == QueueInit /\ [][QueueNext]_vars

\* Progress of the waiters: one pooled worker, with and without temporary
\* workers, a queue that takes every submission.
MaxLiveTasks == 3

LiveOptions ==
  Options({"high", "normal"}, {"f"}, {FALSE}, {FALSE}, {"none"}, {0})
    \cup Options({"normal"}, {"f"}, {FALSE}, {TRUE}, {"none"}, {0})

LiveInit ==
  /\ config \in Configs({1}, 0..MaxTempWorkers, {MaxLiveTasks}, {TRUE})
  /\ InitState(MaxLiveTasks)

LiveNext ==
  \/ \E t \in Tasks, o \in LiveOptions : Submit(t, o)
  \/ \E t \in Tasks, ok \in BOOLEAN : Reply(t, ok)
  \/ \E t \in Tasks : Timeout(t)
  \/ \E t \in Tasks : WorkerError(t)
  \/ \E w \in Workers, code \in {0, 1} : WorkerExit(w, code)
  \/ \E w \in Workers : IdleTimeout(w)

LiveSpec == LiveInit /\ [][LiveNext]_vars

\* The retry controller: execute() with and without retry, safe mode,
\* timeouts and cancellation tokens, on a pool of one worker.
RetryOptions ==
  Options({"normal"}, {"f"}, BOOLEAN, BOOLEAN, {"none"}, 0..MaxAttemptsBound)
    \cup Options({"normal"}, {"f"}, BOOLEAN, {FALSE}, {"live", "aborted"},
                 0..MaxAttemptsBound)

\* the first call of the retry specification: a plain call that keeps the
\* only worker busy
BlockerOptions ==
  Options({"normal"}, {"f"}, {FALSE}, {FALSE}, {"none"}, {0})

RetryInit ==
  /\ config \in Configs({1}, {0}, {0, 1}, {TRUE})
  /\ InitState(MaxRetryTasks)

RetryNext ==
  \/ \E o \in BlockerOptions : Submit(1, o)
  \/ \E t \in Tasks \ {1}, o \in RetryOptions : Submit(t, o)
  \/ \E t \in Tasks, ok \in BOOLEAN : Reply(t, ok)
  \/ \E t \in Tasks : Timeout(t)
  \/ \E t \in Tasks : Abort(t)
  \/ \E t \in Tasks : WorkerError(t)
  \/ \E w \in Workers, code \in {0, 1} : WorkerExit(w, code)
  \/ \E w \in Workers : IdleTimeout(w)
  \/ \E t \in Tasks : Wake(t)

RetrySpec == RetryInit /\ [][RetryNext]_vars

\* ------------------------------------------------------------ stream engine
\* Messages of the generator worker: yield, return, end, error.
Msg(type, value) == [type |-> type, value |-> value]
Undefined == "undefined"

\* execute(): the closure variables (closed, returnValue), the controller of
\* the ReadableStream (state, closeRequested, queue), the consumer's reader
\* (delivered, readerDone, cancelled), the generator's script and the
\* messages it has posted that the main thread has not handled yet;
\* releases counts the releaseWorker calls made by cleanup
NewStream(program) ==
  [closed |-> FALSE, returnValue |-> Undefined, releases |-> 0,
   state |-> "readable", closeRequested |-> FALSE, queue |-> <<>>,
   delivered |-> <<>>, readerDone |-> "no", cancelled |-> FALSE,
   program |-> program, pc |-> 1, inbox |-> <<>>]

\* controller.enqueue(value)
controllerEnqueue(s, t, value) ==
  [s EXCEPT !.streams[t].queue = Append(@, value)]

\* controller.close(): the stream closes once its queue is drained
controllerClose(s, t) ==
  [s EXCEPT !.streams[t].closeRequested = TRUE,
            !.streams[t].state =
              IF s.streams[t].queue = <<>> THEN "closed" ELSE @]

\* controller.error(e): no effect unless readable; the queue is reset
controllerError(s, t) ==
  IF s.streams[t].state = "readable"
  THEN [s EXCEPT !.streams[t].state = "errored",
                 !.streams[t].queue = <<>>]
  ELSE s

\* cleanup of execute(): single shot; removes every listener of the worker
\* (removeAllListeners) and releases it
streamCleanup(s, t) ==
  IF s.streams[t].closed
  THEN s
  ELSE LET s1 == [s EXCEPT !.streams[t].closed = TRUE]
           w == s.tasks[t].worker
       IN IF s.tasks[t].st = "running"
          THEN releaseWorker(
                 [s1 EXCEPT !.tasks[t].st = "done",
                            !.streams[t].releases = @ + 1,
                            !.workers[w].poolExitListener = FALSE],
                 w, s.tasks[t].temporary, "generator", FALSE, NoHash, FALSE)
          ELSE s1

\* start(controller): requestWorker('generator'); a rejected acquisition is
\* caught: controller.error(err); cleanup()
streamStart(s, t) ==
  LET r == requestWorker(s, "generator", "normal", NoHash, t)
  IN IF r.kind = "granted"
     THEN dispatch(r.s, t, r.worker, r.temporary, "acquire")
     ELSE IF r.kind = "queued"
     THEN [r.s EXCEPT !.tasks[t].st = "queued"]
     ELSE streamCleanup(
            controllerError([r.s EXCEPT !.tasks[t].st = "done",
                                        !.tasks[t].error = "QUEUE_FULL"],
                            t), t)

\* the 'message' listener
streamOnMessage_DropReturn(s, t, msg) ==
  IF s.streams[t].closed
  THEN s
  ELSE CASE msg.type = "yield" -> controllerEnqueue(s, t, msg.value)
         [] msg.type = "return" -> s
         [] msg.type = "end" -> streamCleanup(controllerClose(s, t), t)
         [] msg.type = "error" -> streamCleanup(controllerError(s, t), t)
         [] OTHER -> s

streamOnMessage(s, t, msg) ==
  IF s.streams[t].closed
  THEN s
  ELSE CASE msg.type = "yield" -> controllerEnqueue(s, t, msg.value)
         [] msg.type = "return" ->
              [s EXCEPT !.streams[t].returnValue = msg.value]
         [] msg.type = "end" -> streamCleanup(controllerClose(s, t), t)
         [] msg.type = "error" -> streamCleanup(controllerError(s, t), t)
         [] OTHER -> s

\* the 'error' listener
streamOnError(s, t) ==
  IF s.streams[t].closed THEN s
  ELSE streamCleanup(controllerError(s, t), t)

\* the 'exit' listener
streamOnExit(s, t, code) ==
  IF s.streams[t].closed THEN s
  ELSE streamCleanup(IF code # 0 THEN controllerError(s, t) ELSE s, t)

\* the stream whose listeners are attached to worker w (0 when none)
streamListenerOf(s, w) ==
  LET ts == {t \in DOMAIN s.streams :
               s.tasks[t].st = "running" /\ s.tasks[t].worker = w}
  IN IF ts = {} THEN 0 ELSE Min(ts)

\* cancel() of the underlying source
streamCancel(s, t) ==
  LET s1 == IF s.tasks[t].st = "running" /\ ~s.streams[t].closed
            THEN terminate(s, s.tasks[t].worker)
            ELSE s
  IN streamCleanup(s1, t)

\* the scripts of the generators: yields, then return + end, end, or a throw
Programs ==
  {ys \o tl : ys \in {<<>>, <<Msg("yield", 1)>>,
                      <<Msg("yield", 1), Msg("yield", 2)>>},
              tl \in {<<Msg("end", Undefined)>>,
                      <<Msg("return", "final"), Msg("end", Undefined)>>,
                      <<Msg("error", "boom")>>}}

\* the script of the first stream of the stream specification
FirstPrograms == {<<Msg("yield", 1), Msg("end", Undefined)>>}

\* stream(genFn).execute()
StreamExecute(t, program) ==
  /\ tasks[t].st = "new"
  /\ t = Len(streams) + 1
  /\ Commit(streamStart(
       [State EXCEPT !.tasks[t].poolType = "generator",
                     !.tasks[t].fn = NoHash,
                     !.tasks[t].caller = "stream",
                     !.streams = Append(@, NewStream(program))], t))

\* the generator worker posts its next message
StreamPost(t) ==
  /\ tasks[t].st = "running"
  /\ workers[tasks[t].worker].state = "online"
  /\ streams[t].pc <= Len(streams[t].program)
  /\ Commit([State EXCEPT
       !.streams[t].inbox = Append(@, streams[t].program[streams[t].pc]),
       !.streams[t].pc = @ + 1])

\* the main thread receives the oldest posted message
StreamMessage(t) ==
  /\ streams[t].inbox # <<>>
  /\ LET s == [State EXCEPT !.streams[t].inbox = Tail(@)]
     IN IF tasks[t].st = "running"
        THEN Commit(streamOnMessage(s, t, Head(streams[t].inbox)))
        ELSE Commit(s)

\* the consumer reads the next chunk
StreamRead(t) ==
  /\ streams[t].readerDone = "no"
  /\ LET st == streams[t]
     IN IF st.queue # <<>>
        THEN Commit([State EXCEPT
               !.streams[t].delivered = Append(@, Head(st.queue)),
               !.streams[t].queue = Tail(@),
               !.streams[t].state =
                 IF st.closeRequested /\ Len(st.queue) = 1
                 THEN "closed" ELSE @])
        ELSE /\ st.state # "readable"
             /\ Commit([State EXCEPT !.streams[t].readerDone =
                          IF st.state = "closed" THEN "done" ELSE "error"])

\* the consumer cancels the stream
StreamCancel(t) ==
  /\ streams[t].state = "readable"
  /\ streams[t].readerDone = "no"
  /\ Commit(streamCancel(
       [State EXCEPT !.streams[t].state = "closed",
                     !.streams[t].queue = <<>>,
                     !.streams[t].cancelled = TRUE], t))

\* the worker emits 'error' (uncaught exception in the worker thread)
StreamWorkerError(t) ==
  /\ tasks[t].st = "running"
  /\ workers[tasks[t].worker].state = "online"
  /\ Commit(streamOnError(
       [State EXCEPT !.workers[tasks[t].worker].state = "terminating"], t))

\* the worker emits 'exit': the listener of createWorkerEntry, if still
\* attached, then the 'exit' listener of the stream holding the worker
StreamWorkerExit(w, code) ==
  /\ w \in 1..Len(workers)
  /\ \/ workers[w].state = "online"
     \/ workers[w].state = "terminating" /\ code = 1
  /\ LET s0 == [State EXCEPT !.workers[w].state = "exited"]
         s1 == IF workers[w].poolExitListener THEN poolExitHandler(s0, w)
               ELSE s0
         t == streamListenerOf(s1, w)
     IN IF t # 0
        THEN Commit(streamOnExit(s1, t, code))
        ELSE Commit(s1)

StreamInit ==
  /\ config \in Configs({1}, 0..MaxTempWorkers, {1}, {TRUE})
  /\ InitState(MaxStreams)

StreamNext ==
  \/ \E program \in FirstPrograms : StreamExecute(1, program)
  \/ \E t \in Tasks \ {1}, program \in Programs : StreamExecute(t, program)
  \/ \E t \in DOMAIN streams : StreamPost(t)
  \/ \E t \in DOMAIN streams : StreamMessage(t)
  \/ \E t \in DOMAIN streams : StreamRead(t)
  \/ \E t \in DOMAIN streams : StreamCancel(t)
  \/ \E t \in DOMAIN streams : StreamWorkerError(t)
  \/ \E w \in Workers, code \in {0, 1} : StreamWorkerExit(w, code)
  \/ \E w \in Workers : IdleTimeout(w)

StreamSpec == StreamInit /\ [][StreamNext]_vars

\* Progress of the streams: the generator of a stream that holds an online
\* worker keeps posting, the main thread handles every posted message, and a
\* worker on which terminate() was called exits.
StreamLiveNext ==
  \/ \E t \in Tasks, program \in FirstPrograms : StreamExecute(t, program)
  \/ \E t \in DOMAIN streams : StreamPost(t)
  \/ \E t \in DOMAIN streams : StreamMessage(t)
  \/ \E t \in DOMAIN streams : StreamRead(t)
  \/ \E t \in DOMAIN streams : StreamCancel(t)
  \/ \E t \in DOMAIN streams : StreamWorkerError(t)
  \/ \E w \in Workers, code \in {0, 1} : StreamWorkerExit(w, code)
  \/ \E w \in Workers : IdleTimeout(w)

StreamProgress(t) ==
  /\ t \in DOMAIN streams
  /\ StreamPost(t) \/ StreamMessage(t)

TerminatedExit(w) ==
  /\ w \in Workers
  /\ workers[w].state = "terminating"
  /\ StreamWorkerExit(w, 1)

StreamLiveSpec ==
  /\ StreamInit
  /\ [][StreamLiveNext]_vars
  /\ \A t \in 1..MaxStreams : WF_vars(StreamProgress(t))
  /\ \A w \in 1..MaxWorkers : WF_vars(TerminatedExit(w))

\* -------------------------------------------------------------------- turbo
TURBO_THRESHOLD == 10000
MIN_ITEMS_PER_WORKER == 1000

NoOption == 0            \* an option left undefined (set options are >= 1)

\* Math.ceil(a / b)
Ceil(a, b) == (a + b - 1) \div b

\* the callables given to map and reduce
applyFn(fn, x) ==
  CASE fn = "square" -> x * x
    [] fn = "negate" -> 0 - x
    [] OTHER -> x

applyReducer(fn, acc, x) ==
  CASE fn = "sum" -> acc + x
    [] fn = "or" -> IF acc # 0 THEN acc ELSE x
    [] OTHER -> x

\* a left fold of seq[lo..hi] from acc, split in halves to bound the depth
\* (the accumulator is evaluated before the fold descends)
RECURSIVE FoldLeft(_, _, _, _, _)
FoldLeft(fn, acc, seq, lo, hi) ==
  IF lo > hi \/ acc # acc THEN acc
  ELSE IF lo = hi THEN applyReducer(fn, acc, seq[lo])
  ELSE LET mid == (lo + hi) \div 2
       IN FoldLeft(fn, FoldLeft(fn, acc, seq, lo, mid), seq, mid + 1, hi)

\* the worker's handling of turbo_map: the callable applied to each item
workerTurboMap(fn, chunk) ==
  [j \in 1..Len(chunk) |-> applyFn(fn, chunk[j])]

\* the worker's handling of turbo_reduce: the chunk folded from initialValue
workerTurboReduce(fn, chunk, initialValue) ==
  <<FoldLeft(fn, initialValue, chunk, 1, Len(chunk))>>

\* executeTurboMapWithStats: workers and chunk size of the parallel path
mapPlan(dataLength, options) ==
  LET maxWorkers == IF options.workers # NoOption THEN options.workers
                    ELSE config.poolSize
      calculatedWorkers == Ceil(dataLength, MIN_ITEMS_PER_WORKER)
      numWorkers == IF calculatedWorkers < maxWorkers THEN calculatedWorkers
                    ELSE maxWorkers
      actualWorkers == IF numWorkers > 1 THEN numWorkers ELSE 1
      chunkSize == IF options.chunkSize # NoOption THEN options.chunkSize
                   ELSE Ceil(dataLength, actualWorkers)
  IN [numWorkers |-> actualWorkers, chunkSize |-> chunkSize]

\* executeTurboReduce: workers and chunk size (with no worker the chunk size
\* is NaN and the boundary loop does not run)
reducePlan(dataLength, options) ==
  LET maxWorkers == IF options.workers # NoOption THEN options.workers
                    ELSE config.poolSize
      calculatedWorkers == Ceil(dataLength, MIN_ITEMS_PER_WORKER)
      numWorkers == IF calculatedWorkers < maxWorkers THEN calculatedWorkers
                    ELSE maxWorkers
      chunkSize == IF numWorkers = 0 THEN 0
                   ELSE Ceil(dataLength, numWorkers)
  IN [numWorkers |-> numWorkers, chunkSize |-> chunkSize]

\* the chunk boundary loop: [start, end) of chunk i, 0-based, until the
\* first start >= dataLength
chunkBoundsOf(dataLength, numWorkers, chunkSize) ==
  LET ok == {i \in 0..(numWorkers - 1) :
               \A k \in 0..i : k * chunkSize < dataLength}
  IN [i \in 1..Cardinality(ok) |->
        LET start == (i - 1) * chunkSize
            end == start + chunkSize
        IN [start |-> start,
            end |-> IF end < dataLength THEN end ELSE dataLength]]

\* data.slice(start, end)
slice(data, start, end) ==
  SubSeq(data, start + 1, IF end < Len(data) THEN end ELSE Len(data))

\* the merge of executeTurboRegularArray: offsets, then contiguous writes
mergeChunks(chunkResults) ==
  LET chunkCount == Len(chunkResults)
      RECURSIVE offsetOf(_)
      offsetOf(i) == IF i = 1 THEN 0
                     ELSE offsetOf(i - 1) + Len(chunkResults[i - 1])
      totalSize == IF chunkCount = 0 THEN 0
                   ELSE offsetOf(chunkCount) + Len(chunkResults[chunkCount])
      owner(k) == CHOOSE i \in 1..chunkCount :
                    /\ offsetOf(i) < k
                    /\ k <= offsetOf(i) + Len(chunkResults[i])
  IN [k \in 1..totalSize |-> chunkResults[owner(k)][k - offsetOf(owner(k))]]

\* a final fold that leaves out the partial of the last chunk
mergePartials_DropLast(fn, initialValue, chunkResults) ==
  FoldLeft(fn, initialValue, chunkResults, 1, Len(chunkResults) - 1)

\* phase 2 of executeTurboReduce: the partials folded from initialValue
mergePartials(fn, initialValue, chunkResults) ==
  FoldLeft(fn, initialValue, chunkResults, 1, Len(chunkResults))

\* chunk i of the turbo operation waits for its worker as task
\* TurboFirstTask + i - 1
TurboFirstTask == 1
TurboFnHash == "h"       \* fastHash(fnString) of the turbo callable
chunkTask(i) == TurboFirstTask + i - 1

\* the batch `workerRequests[i] = requestWorker('normal', priority, fnHash)`
RECURSIVE requestBatch(_, _, _, _)
requestBatch(s, i, chunkCount, priority) ==
  IF i > chunkCount THEN s
  ELSE LET t == chunkTask(i)
           s0 == [s EXCEPT !.tasks[t].caller = "turbo",
                           !.tasks[t].priority = priority,
                           !.tasks[t].fn = TurboFnHash]
           r == requestWorker(s0, "normal", priority, TurboFnHash, t)
           s1 == IF r.kind = "granted"
                 THEN dispatch(r.s, t, r.worker, r.temporary, "acquire")
                 ELSE IF r.kind = "queued"
                 THEN [r.s EXCEPT !.tasks[t].st = "queued"]
                 ELSE [r.s EXCEPT !.tasks[t].st = "done",
                                  !.tasks[t].error = "QUEUE_FULL"]
       IN requestBatch(s1, i + 1, chunkCount, priority)

\* Promise.all over the chunk futures: rejects at the first rejection (with
\* firstError when the fail-fast handler captured one), fulfils with the
\* merge once every chunk has resolved
turboSettle(s, err) ==
  LET tb == s.turbo
      results == [i \in 1..Len(tb.chunks) |-> tb.chunks[i].result]
  IN IF tb.phase # "running" THEN s
     ELSE IF err # NoError
     THEN [s EXCEPT !.turbo.phase = "rejected",
                    !.turbo.error = IF tb.firstError # NoError
                                    THEN tb.firstError ELSE err]
     ELSE IF \A i \in 1..Len(tb.chunks) : tb.chunks[i].st = "resolved"
     THEN [s EXCEPT !.turbo.phase = "fulfilled",
                    !.turbo.result =
                      IF tb.kind = "reduce"
                      THEN mergePartials(tb.fn, tb.initialValue, results)
                      ELSE IF tb.kind = "fallback" THEN results[1]
                      ELSE mergeChunks(results)]
     ELSE s

\* executeTurboRegularArray / executeTurboReduce / fallbackSingleExecution
\* up to `await Promise.all(workerRequests)`
turboStart(s, kind, data, fn, initialValue, options) ==
  LET dataLength == Len(data)
      small == ~options.force /\ dataLength < TURBO_THRESHOLD
      plan == IF kind = "map" THEN mapPlan(dataLength, options)
              ELSE reducePlan(dataLength, options)
      bounds == IF small THEN <<[start |-> 0, end |-> dataLength]>>
                ELSE chunkBoundsOf(dataLength, plan.numWorkers,
                                   plan.chunkSize)
      opKind == IF small /\ kind = "map" THEN "fallback" ELSE kind
      s1 == [s EXCEPT !.turbo =
               [NewTurbo EXCEPT !.phase = "acquiring", !.kind = opKind,
                                !.data = data, !.fn = fn,
                                !.initialValue = initialValue,
                                !.chunkBounds = bounds,
                                !.chunks = [i \in 1..Len(bounds) |->
                                  [task |-> chunkTask(i), st |-> "acquiring",
                                   result |-> <<>>, error |-> NoError]]]]
      s2 == requestBatch(s1, 1, Len(bounds),
                         IF small THEN "normal" ELSE "high")
      rejected == \E i \in 1..Len(bounds) :
                    s2.tasks[chunkTask(i)].error = "QUEUE_FULL"
  IN IF small /\ kind = "reduce"
     THEN [s EXCEPT !.turbo =
             [NewTurbo EXCEPT !.phase = "fulfilled", !.kind = opKind,
                              !.data = data, !.fn = fn,
                              !.initialValue = initialValue,
                              !.result = FoldLeft(fn, initialValue, data, 1,
                                                  dataLength)]]
     ELSE IF rejected
     THEN [s2 EXCEPT !.turbo.phase = "rejected",
                     !.turbo.error = QueueFull]
     ELSE IF Len(bounds) = 0
     THEN turboSettle([s2 EXCEPT !.turbo.phase = "running"], NoError)
     ELSE s2

\* cleanup of a chunk: listeners removed, worker released
chunkCleanup(s, i) ==
  LET t == s.turbo.chunks[i].task
  IN releaseWorker([s EXCEPT !.tasks[t].st = "done"],
                   s.tasks[t].worker, s.tasks[t].temporary, "normal",
                   FALSE, s.tasks[t].fn, FALSE)

\* the future of chunk i rejects: the .catch of executeTurboRegularArray
\* sets the fail-fast state, then Promise.all sees the rejection
chunkReject_LastError(s, i, err) ==
  LET s1 == [s EXCEPT !.turbo.chunks[i].st = "rejected",
                      !.turbo.chunks[i].error = err]
      s2 == IF s1.turbo.kind = "map"
            THEN [s1 EXCEPT !.turbo.aborted = TRUE,
                            !.turbo.firstError = err]
            ELSE s1
  IN turboSettle(s2, err)

chunkReject(s, i, err) ==
  LET s1 == [s EXCEPT !.turbo.chunks[i].st = "rejected",
                      !.turbo.chunks[i].error = err]
      s2 == IF s1.turbo.kind = "map" /\ ~s1.turbo.aborted
            THEN [s1 EXCEPT !.turbo.aborted = TRUE,
                            !.turbo.firstError = err]
            ELSE s1
  IN turboSettle(s2, err)

chunkResolve(s, i, result) ==
  turboSettle([s EXCEPT !.turbo.chunks[i].st = "resolved",
                        !.turbo.chunks[i].result = result], NoError)

\* onMessage of executeTurboChunkDirect / executeReduceChunkDirect /
\* fallbackSingleExecution
chunkOnMessage(s, i, type) ==
  LET tb == s.turbo
      b == tb.chunkBounds[i]
      chunk == slice(tb.data, b.start, b.end)
      s1 == chunkCleanup(s, i)
  IN IF tb.kind = "map" /\ tb.aborted
     THEN chunkReject(s1, i, <<"Turbo execution aborted", i>>)
     ELSE IF type = "turbo_complete"
     THEN chunkResolve(s1, i,
            IF tb.kind = "reduce"
            THEN LET result == workerTurboReduce(tb.fn, chunk,
                                                 tb.initialValue)
                 IN IF Len(result) > 0 THEN result[1] ELSE tb.initialValue
            ELSE workerTurboMap(tb.fn, chunk))
     ELSE chunkReject(s1, i, <<"turbo_error", i>>)

\* onError of a chunk
chunkOnError(s, i) ==
  chunkReject(chunkCleanup(s, i), i, <<"error", i>>)

\* inputs of the turbo operations: arrays [1, 2, .., n] below, at and above
\* MIN_ITEMS_PER_WORKER multiples, worker limits and chunk sizes
Data(n) == [i \in 1..n |-> i]
DataLengths == {0, 1, MIN_ITEMS_PER_WORKER + 1, 2 * MIN_ITEMS_PER_WORKER + 1}
TurboOptions ==
  [workers : {NoOption} \cup 1..MaxChunks,
   chunkSize : {NoOption, MIN_ITEMS_PER_WORKER \div 2, MIN_ITEMS_PER_WORKER},
   force : BOOLEAN]
TurboCalls ==
  [kind : {"map"}, fn : {"square"}, initialValue : {0},
   n : DataLengths, options : TurboOptions]
    \cup [kind : {"reduce"}, fn : {"sum", "or"}, initialValue : {0},
          n : DataLengths,
          options : {o \in TurboOptions : o.chunkSize = NoOption}]

\* beeThreads.turbo(data, options).map(fn) / .reduce(fn, initialValue)
TurboStart(c) ==
  /\ turbo.phase = "idle"
  /\ Commit(turboStart(State, c.kind, Data(c.n), c.fn, c.initialValue,
                       c.options))

\* the worker of chunk i posts turbo_complete or turbo_error
ChunkMessage(i, type) ==
  /\ i \in 1..Len(turbo.chunks)
  /\ turbo.chunks[i].st = "pending"
  /\ workers[tasks[turbo.chunks[i].task].worker].state = "online"
  /\ Commit(chunkOnMessage(State, i, type))

\* the worker of chunk i emits 'error'
ChunkWorkerError(i) ==
  /\ i \in 1..Len(turbo.chunks)
  /\ turbo.chunks[i].st = "pending"
  /\ workers[tasks[turbo.chunks[i].task].worker].state = "online"
  /\ LET w == tasks[turbo.chunks[i].task].worker
     IN Commit(chunkOnError([State EXCEPT !.workers[w].state = "terminating"],
                            i))

TurboInit ==
  /\ config \in Configs(1..MaxPoolSize, 0..MaxTempWorkers, {1, MaxChunks},
                        {TRUE})
  /\ InitState(TurboFirstTask - 1 + MaxChunks)

TurboNext ==
  \/ \E c \in TurboCalls : TurboStart(c)
  \/ \E i \in 1..MaxChunks, type \in {"turbo_complete", "turbo_error"} :
       ChunkMessage(i, type)
  \/ \E i \in 1..MaxChunks : ChunkWorkerError(i)
  \/ \E w \in Workers, code \in {0, 1} : WorkerExit(w, code)
  \/ \E w \in Workers : IdleTimeout(w)

TurboSpec == TurboInit /\ [][TurboNext]_vars

\* ---------------------------------------------------------------- coalescer
\* A callable's source text, as the sequence of its tokens.
Square == <<"(x)", "=>", "x", "*", "x">>
Roll == <<"()", "=>", "Math.random", "()">>
Sources == {Square, Roll}

NON_DETERMINISTIC_PATTERNS ==
  <<"Date.now", "new Date", "performance.now", "Math.random",
    "crypto.randomUUID", "crypto.randomBytes", "crypto.getRandomValues",
    "uuid", "nanoid", "cuid", "process.hrtime">>

MAX_NON_DETERMINISTIC_CACHE_SIZE == 500

\* fnString.includes(pattern)
includes(fnString, pattern) ==
  \E i \in 1..Len(fnString) : fnString[i] = pattern

\* fastHash of cache.ts: the fingerprint of a source text
fastHash(fnString) ==
  IF fnString = Square THEN "f" ELSE "g"

\* createContextKey of cache.ts: name:type:value of each member
createContextKey(args) ==
  [i \in 1..Len(args) |-> <<i, "number", args[i]>>]

\* isNonDeterministic that finds no pattern
isNonDeterministic_Never(c, fnString) ==
  [c |-> c, result |-> FALSE]

\* isNonDeterministic: cached verdict, else pattern scan, eviction of the
\* oldest half of a full cache, then the verdict is cached
isNonDeterministic(c, fnString) ==
  LET cache == c.nonDeterministicCache
      cached == {i \in 1..Len(cache) : cache[i].key = fnString}
      result == \E i \in 1..Len(NON_DETERMINISTIC_PATTERNS) :
                  includes(fnString, NON_DETERMINISTIC_PATTERNS[i])
      keysToDelete == MAX_NON_DETERMINISTIC_CACHE_SIZE \div 2
      kept == IF Len(cache) >= MAX_NON_DETERMINISTIC_CACHE_SIZE
              THEN SubSeq(cache, keysToDelete + 1, Len(cache))
              ELSE cache
  IN IF cached # {}
     THEN [c |-> c, result |-> cache[Min(cached)].value]
     ELSE [c |-> [c EXCEPT !.nonDeterministicCache =
                     Append(kept, [key |-> fnString, value |-> result])],
           result |-> result]

\* `${hash}:${argsKey}:${contextKey}`
createRequestKey(fnString, args, context, fnHash) ==
  LET hash == IF fnHash # NoHash THEN fnHash ELSE fastHash(fnString)
      argsKey == createContextKey(args)
      contextKey == IF context # <<>> THEN createContextKey(context)
                    ELSE <<>>
  IN <<hash, argsKey, contextKey>>

\* Map get / set / delete on inFlightPromises (pairs <<key, promise>>)
MapGet(map, key) ==
  IF \E e \in map : e[1] = key
  THEN (CHOOSE e \in map : e[1] = key)[2]
  ELSE 0

MapSet(map, key, value) ==
  {e \in map : e[1] # key} \cup {<<key, value>>}

MapDelete(map, key) == {e \in map : e[1] # key}

\* factory(): the caller's factory starts the request and returns its future;
\* hook is the key whose entry the .finally() callback deletes (<<>>: none)
factory(c, hook) ==
  [c EXCEPT !.promises = Append(@, [st |-> "pending", hook |-> hook])]

\* coalesce that forgets to store the new future in the in-flight map
coalesce_NoInstall(c, fnString, args, context, skipCoalescing, fnHash) ==
  LET call == [fnString |-> fnString, args |-> args, context |-> context,
               skipCoalescing |-> skipCoalescing,
               enabled |-> c.coalescingEnabled, promise |-> 0]
      returns(c1, p) ==
        [c1 EXCEPT !.calls = Append(@, [call EXCEPT !.promise = p])]
      nd == IF ~c.coalescingEnabled \/ skipCoalescing
            THEN [c |-> c, result |-> TRUE]
            ELSE isNonDeterministic(c, fnString)
      key == createRequestKey(fnString, args, context, fnHash)
      existing == MapGet(nd.c.inFlightPromises, key)
  IN IF nd.result
     THEN returns(factory(nd.c, <<>>), Len(nd.c.promises) + 1)
     ELSE IF existing # 0
     THEN returns([nd.c EXCEPT !.coalescedCount = @ + 1], existing)
     ELSE LET c1 == [nd.c EXCEPT !.uniqueCount = @ + 1]
              c2 == factory(c1, key)
          IN returns(c2, Len(c2.promises))

\* coalesce(fnString, args, context, factory, skipCoalescing, fnHash): the
\* call is recorded with its inputs and the future it was returned
coalesce(c, fnString, args, context, skipCoalescing, fnHash) ==
  LET call == [fnString |-> fnString, args |-> args, context |-> context,
               skipCoalescing |-> skipCoalescing,
               enabled |-> c.coalescingEnabled, promise |-> 0]
      returns(c1, p) ==
        [c1 EXCEPT !.calls = Append(@, [call EXCEPT !.promise = p])]
      nd == IF ~c.coalescingEnabled \/ skipCoalescing
            THEN [c |-> c, result |-> TRUE]
            ELSE isNonDeterministic(c, fnString)
      key == createRequestKey(fnString, args, context, fnHash)
      existing == MapGet(nd.c.inFlightPromises, key)
  IN IF nd.result
     THEN returns(factory(nd.c, <<>>), Len(nd.c.promises) + 1)
     ELSE IF existing # 0
     THEN returns([nd.c EXCEPT !.coalescedCount = @ + 1], existing)
     ELSE LET c1 == [nd.c EXCEPT !.uniqueCount = @ + 1]
              c2 == factory(c1, key)
              promise == Len(c2.promises)
          IN returns([c2 EXCEPT !.inFlightPromises =
                                   MapSet(@, key, promise)], promise)

\* settlePromise whose .finally() callback leaves the in-flight map alone
settlePromise_KeepKey(c, p, st) ==
  [c EXCEPT !.promises[p].st = st]

\* the future of a factory settles; its .finally() callback, if any, runs
settlePromise(c, p, st) ==
  LET c1 == [c EXCEPT !.promises[p].st = st]
      hook == c.promises[p].hook
  IN IF hook # <<>>
     THEN [c1 EXCEPT !.inFlightPromises = MapDelete(@, hook)]
     ELSE c1

setCoalescingEnabled(c, enabled) ==
  [c EXCEPT !.coalescingEnabled = enabled]

resetCoalescingStats(c) ==
  [c EXCEPT !.coalescedCount = 0, !.uniqueCount = 0]

\* the inputs of the coalesce() calls explored
CoalesceInputs ==
  [fnString : {Square}, args : {<<1>>, <<2>>}, skipCoalescing : BOOLEAN]
    \cup [fnString : {Roll}, args : {<<1>>},
          skipCoalescing : {FALSE}]

Coalesce(in) ==
  /\ Len(coalescer.calls) < MaxCalls
  /\ coalescer' = coalesce(coalescer, in.fnString, in.args, <<>>,
                           in.skipCoalescing, fastHash(in.fnString))
  /\ UNCHANGED poolVars

FactorySettles(p, st) ==
  /\ coalescer.promises[p].st = "pending"
  /\ coalescer' = settlePromise(coalescer, p, st)
  /\ UNCHANGED poolVars

SetCoalescingEnabled(enabled) ==
  /\ coalescer.coalescingEnabled # enabled
  /\ coalescer' = setCoalescingEnabled(coalescer, enabled)
  /\ UNCHANGED poolVars

ResetCoalescingStats ==
  /\ coalescer.coalescedCount + coalescer.uniqueCount > 0
  /\ coalescer' = resetCoalescingStats(coalescer)
  /\ UNCHANGED poolVars

CoalesceInit ==
  /\ config \in Configs({1}, {0}, {1}, {TRUE})
  /\ InitState(0)

CoalesceNext ==
  \/ \E in \in CoalesceInputs : Coalesce(in)
  \/ \E p \in 1..Len(coalescer.promises),
        st \in {"fulfilled", "rejected"} : FactorySettles(p, st)
  \/ \E enabled \in BOOLEAN : SetCoalescingEnabled(enabled)
  \/ ResetCoalescingStats

CoalesceSpec == CoalesceInit /\ [][CoalesceNext]_vars

\* clearInFlightPromises(): inFlightPromises.clear()
clearInFlightPromises(c) == [c EXCEPT !.inFlightPromises = {}]

ClearInFlightPromises ==
  /\ coalescer.inFlightPromises # {}
  /\ coalescer' = clearInFlightPromises(coalescer)
  /\ UNCHANGED poolVars

\* The coalescer with clearInFlightPromises() called at any time.
ClearNext ==
  \/ \E in \in CoalesceInputs : Coalesce(in)
  \/ \E p \in 1..Len(coalescer.promises),
        st \in {"fulfilled", "rejected"} : FactorySettles(p, st)
  \/ \E enabled \in BOOLEAN : SetCoalescingEnabled(enabled)
  \/ ResetCoalescingStats
  \/ ClearInFlightPromises

ClearSpec == CoalesceInit /\ [][ClearNext]_vars

\* ------------------------------------------------------------------ claims
Running(t) == tasks[t].st = "running"
Queued(t) == tasks[t].st = "queued"
InPool(pt, w) == \E i \in 1..Len(pools[pt]) : pools[pt][i] = w

\* C1: mutual exclusion per worker: no two unsettled tasks are assigned the
\* same worker (pooled or temporary), whatever the interleaving of
\* submissions, replies, timeouts, aborts and worker exits.
C1_MutualExclusion ==
  \A t1, t2 \in Tasks :
    (t1 # t2 /\ Running(t1) /\ Running(t2))
      => tasks[t1].worker # tasks[t2].worker

\* two tasks run at once, one of them on an entry it got by a hand-off
C1_Witness ==
  \E t1, t2 \in Tasks :
    /\ t1 # t2 /\ Running(t1) /\ Running(t2)
    /\ tasks[t2].via = "handoff"

\* C4: admission control: a submission is rejected with QUEUE_FULL exactly
\* when no worker can be granted (no idle entry, pool at poolSize, temporary
\* capacity exhausted) and the queue already holds maxQueueSize waiters; the
\* rejected submission is not enqueued and the queue never holds more than
\* maxQueueSize waiters.
NoGrant(pt) ==
  /\ \A i \in 1..Len(pools[pt]) : workers[pools[pt][i]].busy
  /\ Len(pools[pt]) >= config.poolSize
  /\ metrics.activeTemporaryWorkers >= config.maxTemporaryWorkers

C4_AdmissionControl ==
  [][\A t \in Tasks, o \in PoolOptions :
       Submit(t, o) =>
         /\ (tasks'[t].error = "QUEUE_FULL")
              <=> (NoGrant("normal")
                    /\ getQueueLength(queues["normal"]) >= config.maxQueueSize)
         /\ tasks'[t].error = "QUEUE_FULL" => queues' = queues
         /\ getQueueLength(queues'["normal"]) <= config.maxQueueSize]_vars

\* a submission was rejected with QUEUE_FULL while the queue is full
C4_Witness ==
  \E t \in Tasks :
    /\ tasks[t].st = "done" /\ tasks[t].error = "QUEUE_FULL"
    /\ getQueueLength(queues["normal"]) = config.maxQueueSize

\* C6: timeout eviction: once the timeout of a task has fired and the task
\* has failed with TIMEOUT, its entry is evicted, so that no task is given
\* that entry afterwards.
C6_TimeoutEvicts ==
  \A w \in Workers :
    workers[w].timedOut =>
      \A t \in Tasks : ~(Running(t) /\ tasks[t].worker = w)

\* C2: strict band priority: whenever a queued waiter is handed a worker,
\* no waiter of a higher band is queued in that pool (high before normal
\* before low).
Rank(priority) ==
  CASE priority = "high" -> 0 [] priority = "normal" -> 1 [] OTHER -> 2

C2_StrictBandPriority ==
  [][\A t, u \in Tasks :
       (Queued(t) /\ Queued(u) /\ tasks'[t].st # "queued")
         => Rank(tasks[u].priority) >= Rank(tasks[t].priority)]_vars

\* low, normal and high were submitted in that order behind a blocker and
\* the high waiter has been handed the worker first
C2_Witness ==
  \E l, n, h \in Tasks :
    /\ l < n /\ n < h
    /\ Queued(l) /\ tasks[l].priority = "low"
    /\ Queued(n) /\ tasks[n].priority = "normal"
    /\ Running(h) /\ tasks[h].priority = "high" /\ tasks[h].via = "handoff"

\* C3: FIFO within a band: of two waiters queued in the same band, the one
\* enqueued first (the earlier submission) is handed a worker first.
C3_FifoWithinBand ==
  [][\A t1, t2 \in Tasks :
       (/\ t1 < t2 /\ Queued(t1) /\ Queued(t2)
        /\ tasks[t1].priority = tasks[t2].priority
        /\ tasks'[t2].st # "queued")
         => tasks'[t1].st # "queued"]_vars

\* the earlier of two waiters of one band runs by hand-off, the later waits
C3_Witness ==
  \E t1, t2 \in Tasks :
    /\ t1 < t2 /\ tasks[t1].priority = tasks[t2].priority
    /\ Running(t1) /\ tasks[t1].via = "handoff" /\ Queued(t2)

\* C7: queued tasks make progress: provided every dispatched task
\* eventually settles, every queued submission eventually acquires a worker.
C7_QueuedProgress ==
  (\A t \in 1..MaxLiveTasks : Running(t) ~> ~Running(t))
    => (\A t \in 1..MaxLiveTasks : Queued(t) ~> Running(t))

\* a task that was queued behind a running task runs after a hand-off
C7_Witness ==
  \E t, u \in Tasks :
    /\ u < t /\ tasks[u].st = "done"
    /\ Running(t) /\ tasks[t].via = "handoff"

\* C5: a submission whose cancellation token is already aborted fails with
\* ABORTED without calling acquire: the pool arrays, the counters, the
\* queues, the workers and the metrics are unchanged.
C5_AbortedBeforeAcquire ==
  [][\A t \in Tasks, o \in RetryOptions :
       (o.signal = "aborted" /\ Submit(t, o))
         => /\ tasks'[t].st = "done"
            /\ tasks'[t].error = "ABORTED"
            /\ tasks'[t].outcome \in {"throw", "status_rejected"}
            /\ UNCHANGED <<pools, poolCounters, queues, workers, metrics>>]_vars

\* a call failed with ABORTED while the only worker was held by the first
\* call and nothing could be queued: it never had a worker
C5_Witness ==
  /\ config.maxQueueSize = 0
  /\ Running(1) /\ Len(workers) = 1
  /\ tasks[2].st = "done" /\ tasks[2].error = "ABORTED"
  /\ metrics.totalTasksExecuted = 0 /\ metrics.totalTasksFailed = 0

\* C8: in the retry loop an attempt that fails with ABORTED or TIMEOUT ends
\* the loop at once: the call is settled in that step, no sleep is started
\* and totalRetries is not incremented.
C8_NoRetryOnAbortTimeout ==
  [][\A t \in Tasks :
       (/\ tasks[t].st \in {"new", "running", "sleeping"}
        /\ tasks'[t] # tasks[t]
        /\ tasks'[t].maxAttempts >= 1
        /\ tasks'[t].error \in {"ABORTED", "TIMEOUT"})
         => /\ tasks'[t].st = "done"
            /\ tasks'[t].outcome \in {"throw", "status_rejected"}
            /\ metrics'.totalRetries = metrics.totalRetries
            /\ tasks'[t].attempt =
                 tasks[t].attempt
                   + (IF tasks[t].st = "sleeping" THEN 1 ELSE 0)]_vars

\* a call with attempts left ended on a TIMEOUT or an ABORTED failure
C8_Witness ==
  \E t \in Tasks :
    /\ tasks[t].st = "done" /\ tasks[t].error \in {"ABORTED", "TIMEOUT"}
    /\ tasks[t].maxAttempts >= 2
    /\ tasks[t].attempt = 1
    /\ metrics.totalRetries = 1

\* C9: bounded retry: with retry enabled execute makes at most maxAttempts
\* attempts, ends with the value at the first success, otherwise fails with
\* the error of the last attempt (after the last allowed attempt, or at once
\* on ABORTED or TIMEOUT); totalRetries counts one per re-attempt.
RetriesOf(t) ==
  tasks[t].attempt + (IF tasks[t].st = "sleeping" THEN 1 ELSE 0)

C9_BoundedRetry ==
  /\ \A t \in Tasks :
       tasks[t].maxAttempts >= 1 =>
         /\ tasks[t].attempt < tasks[t].maxAttempts
         /\ tasks[t].st = "sleeping"
              => tasks[t].attempt < tasks[t].maxAttempts - 1
         /\ tasks[t].st = "done" =>
              \/ /\ tasks[t].outcome \in {"value", "status_fulfilled"}
                 /\ tasks[t].error = "none"
              \/ /\ tasks[t].outcome \in {"throw", "status_rejected"}
                 /\ tasks[t].error # "none"
                 /\ \/ tasks[t].attempt = tasks[t].maxAttempts - 1
                    \/ tasks[t].error \in {"ABORTED", "TIMEOUT"}
  /\ metrics.totalRetries =
       SumOver([t \in Tasks |-> RetriesOf(t)], Tasks)

\* maxAttempts = 3: attempts 0 and 1 failed, attempt 2 returned the value
C9_Witness ==
  \E t \in Tasks :
    /\ tasks[t].maxAttempts = 3 /\ tasks[t].attempt = 2
    /\ tasks[t].st = "done" /\ tasks[t].outcome = "value"
    /\ metrics.totalRetries = 2

Coalescible(call) ==
  /\ call.enabled /\ ~call.skipCoalescing
  /\ ~\E i \in 1..Len(NON_DETERMINISTIC_PATTERNS) :
        includes(call.fnString, NON_DETERMINISTIC_PATTERNS[i])

SameRequest(a, b) ==
  a.fnString = b.fnString /\ a.args = b.args /\ a.context = b.context

\* the step is a coalesce() call
IsCall == Len(coalescer'.calls) = Len(coalescer.calls) + 1
NewCall == coalescer'.calls[Len(coalescer'.calls)]

\* the earlier coalescible calls of the same request whose future is pending
Sharers ==
  {i \in 1..Len(coalescer.calls) :
     /\ Coalescible(coalescer.calls[i])
     /\ SameRequest(coalescer.calls[i], NewCall)
     /\ coalescer.promises[coalescer.calls[i].promise].st = "pending"}

C12_CoalescingBypass ==
  [][(IsCall /\ ~Coalescible(NewCall)) =>
       /\ Len(coalescer'.promises) = Len(coalescer.promises) + 1
       /\ NewCall.promise = Len(coalescer'.promises)
       /\ coalescer'.inFlightPromises = coalescer.inFlightPromises
       /\ coalescer'.uniqueCount = coalescer.uniqueCount
       /\ coalescer'.coalescedCount = coalescer.coalescedCount]_vars

\* a request is in flight; an identical call with the skip flag, one made
\* while disabled and a non-deterministic one each got a future of their own
C12_Witness ==
  /\ Len(coalescer.calls) = 3 /\ Len(coalescer.promises) = 3
  /\ Coalescible(coalescer.calls[1])
  /\ coalescer.promises[1].st = "pending"
  /\ \E i \in 2..3 : /\ SameRequest(coalescer.calls[i], coalescer.calls[1])
                     /\ coalescer.calls[i].skipCoalescing
  /\ \E i \in 2..3 : ~coalescer.calls[i].enabled
  /\ coalescer.inFlightPromises # {}
  /\ coalescer.uniqueCount = 1 /\ coalescer.coalescedCount = 0

\* the values a script yields, in emission order, and the value it returns
IsYield(msg) == msg.type = "yield"
IsReturn(msg) == msg.type = "return"
Yields(program) ==
  LET ys == SelectSeq(program, IsYield)
  IN [i \in 1..Len(ys) |-> ys[i].value]
Returned(program) ==
  LET rs == SelectSeq(program, IsReturn)
  IN IF rs = <<>> THEN Undefined ELSE rs[1].value
IsPrefix(a, b) == Len(a) <= Len(b) /\ a = SubSeq(b, 1, Len(a))

\* C13: stream delivery: the reader is delivered the yielded values in
\* emission order; once END has been processed (and the consumer has not
\* cancelled) every yielded value is delivered or waiting in the reader's
\* queue, the stream is not errored, returnValue is the RETURN value
\* (undefined without RETURN), and a reader that has read to the end has
\* exactly v1..vn.
C13_StreamDelivery ==
  \A t \in DOMAIN streams :
    LET st == streams[t]
    IN /\ IsPrefix(st.delivered, Yields(st.program))
       /\ (st.closeRequested /\ ~st.cancelled) =>
            /\ st.delivered \o st.queue = Yields(st.program)
            /\ st.state # "errored" /\ st.readerDone # "error"
            /\ st.returnValue = Returned(st.program)
            /\ st.readerDone = "done" => st.delivered = Yields(st.program)

\* function*(){ yield 1; yield 2; return "final" } read to the end
C13_Witness ==
  \E t \in DOMAIN streams :
    /\ streams[t].program = <<Msg("yield", 1), Msg("yield", 2),
                              Msg("return", "final"), Msg("end", Undefined)>>
    /\ streams[t].delivered = <<1, 2>>
    /\ streams[t].readerDone = "done"
    /\ streams[t].returnValue = "final"
    /\ tasks[t].via = "handoff"

\* xs.map(g)
SequentialMap(fn, data) == [k \in 1..Len(data) |-> applyFn(fn, data[k])]

\* C14: a turbo map that fulfils returns xs.map(g): the same length as the
\* input, element k being g applied to element k of the input, whatever the
\* order in which the chunk replies arrived.
C14_TurboMapEqualsSequential ==
  (turbo.phase = "fulfilled" /\ turbo.kind \in {"map", "fallback"})
    => turbo.result = SequentialMap(turbo.fn, turbo.data)

\* xs.reduce(f, init)
SequentialReduce(fn, initialValue, data) ==
  FoldLeft(fn, initialValue, data, 1, Len(data))

\* C15: a turbo reduce that fulfils, with an associative f (sum; first
\* non-zero) and an init that is a left identity of f (0), returns
\* xs.reduce(f, init), for every input and every chunking.
C15_TurboReduceEqualsSequential ==
  (turbo.phase = "fulfilled" /\ turbo.kind = "reduce")
    => turbo.result
         = SequentialReduce(turbo.fn, turbo.initialValue, turbo.data)

\* a sum over three chunks has been folded from its three partials
C15_Witness ==
  /\ turbo.phase = "fulfilled" /\ turbo.kind = "reduce"
  /\ turbo.fn = "sum"
  /\ Len(turbo.chunks) = MaxChunks
  /\ \A i \in 1..Len(turbo.chunks) : turbo.chunks[i].result > 0
  /\ turbo.result = (Len(turbo.data) * (Len(turbo.data) + 1)) \div 2

\* chunk i of the turbo operation fails in this step
ChunkFails(i) ==
  /\ i \in 1..Len(turbo.chunks)
  /\ turbo.chunks[i].st = "pending"
  /\ turbo'.chunks[i].st = "rejected"

\* C16: in a turbo map the first chunk failure sets the aborted flag and is
\* captured as firstError, the combined future rejects in that step with
\* that error, and neither the flag, the captured error nor the rejection
\* changes when the other chunks reply or fail afterwards.
C16_TurboFailFast ==
  [][(turbo.kind = "map" /\ turbo.phase \in {"running", "rejected"})
       => /\ \A i \in 1..Len(turbo.chunks) :
               (ChunkFails(i) /\ ~turbo.aborted)
                 => /\ turbo'.aborted
                    /\ turbo'.firstError = turbo'.chunks[i].error
                    /\ turbo'.phase = "rejected"
                    /\ turbo'.error = turbo'.firstError
          /\ turbo.aborted
               => /\ turbo'.aborted
                  /\ turbo'.firstError = turbo.firstError
                  /\ turbo'.phase = "rejected"
                  /\ turbo'.error = turbo.firstError
          /\ (turbo.phase = "rejected" /\ ~turbo.aborted)
               => turbo.error = QueueFull]_vars

\* three chunks: the second failed first, then the first replied and the
\* third failed; the operation is rejected with the error of the second
C16_Witness ==
  /\ turbo.kind = "map" /\ turbo.phase = "rejected"
  /\ Len(turbo.chunks) = MaxChunks
  /\ \A i \in 1..Len(turbo.chunks) : turbo.chunks[i].st = "rejected"
  /\ turbo.firstError = <<"turbo_error", 2>>
  /\ turbo.error = <<"turbo_error", 2>>
  /\ turbo.chunks[1].error = <<"Turbo execution aborted", 1>>
  /\ turbo.chunks[3].error = <<"error", 3>>

\* C17: for each pool type, between the steps of the program, busyCount +
\* idleCount equals the number of entries in the pool array.
C17_CounterSum ==
  \A pt \in PoolTypes :
    poolCounters[pt].busy + poolCounters[pt].idle = Len(pools[pt])

\* a warmed-up pool of two entries lost a busy entry to a worker exit, the
\* task of that worker released it afterwards, and the other entry is busy
C17_Witness ==
  /\ Len(pools["normal"]) = 1
  /\ workers[pools["normal"][1]].busy
  /\ poolCounters["normal"].busy = 0
  /\ poolCounters["normal"].idle = 1
  /\ \E t \in Tasks : tasks[t].st = "done" /\ tasks[t].error = ExitError(1)

\* C18: whatever acquisitions, releases, warmups and worker exits happened,
\* each pool array holds at most config.poolSize entries.
C18_PoolSizeBound ==
  \A pt \in PoolTypes : Len(pools[pt]) <= config.poolSize

\* the pool is full again after an entry was lost to a worker exit: three
\* workers were created for a pool of two, one by a task and one by a
\* warmup that asked for more than poolSize
C18_Witness ==
  /\ config.poolSize = 2
  /\ Len(pools["normal"]) = config.poolSize
  /\ Len(workers) >= 3
  /\ \E w \in Workers : workers[w].poolType = "normal"
                         /\ workers[w].state = "exited"
  /\ \E t \in Tasks : tasks[t].st = "running" /\ ~tasks[t].temporary
  /\ \E i \in 1..2 : /\ ~workers[pools["normal"][i]].busy
                      /\ workers[pools["normal"][i]].tasksExecuted = 0

\* the tasks holding a temporary worker they acquired and have not released
TemporaryHolders == {t \in Tasks : tasks[t].st = "running" /\ tasks[t].temporary}

\* C19: activeTemporaryWorkers stays within 0..maxTemporaryWorkers and
\* equals the number of temporary workers acquired and not yet released; a
\* temporary worker is in no pool array, is never handed to a queued waiter,
\* and is terminated by its first release (one that is still online is held
\* by the task that acquired it).
C19_TemporaryAccounting ==
  /\ metrics.activeTemporaryWorkers >= 0
  /\ metrics.activeTemporaryWorkers <= config.maxTemporaryWorkers
  /\ metrics.activeTemporaryWorkers = Cardinality(TemporaryHolders)
  /\ \A pt \in PoolTypes : \A i \in 1..Len(pools[pt]) :
       ~workers[pools[pt][i]].temporary
  /\ \A t \in Tasks :
       (tasks[t].st = "running" /\ tasks[t].via = "handoff")
         => ~tasks[t].temporary /\ ~workers[tasks[t].worker].temporary
  /\ \A w \in Workers :
       (workers[w].temporary /\ workers[w].state = "online")
         => \E t \in TemporaryHolders : tasks[t].worker = w

\* a temporary worker was released while a waiter was queued: the worker is
\* terminating, the waiter is still queued and the count is back to 0
C19_Witness ==
  /\ metrics.temporaryWorkerTasks = 1
  /\ metrics.activeTemporaryWorkers = 0
  /\ \E w \in Workers : workers[w].temporary /\ workers[w].state = "terminating"
  /\ \E t \in Tasks : tasks[t].st = "queued"

\* stats.normal.workers.map(w => w.tasksExecuted): max - min
ExecCounts == {workers[pools["normal"][i]].tasksExecuted :
                 i \in 1..Len(pools["normal"])}
Spread ==
  IF ExecCounts = {} THEN 0
  ELSE (CHOOSE x \in ExecCounts : \A y \in ExecCounts : x >= y)
         - Min(ExecCounts)

\* C20 as stated: with tasks submitted one at a time, the tasks-executed
\* counts of the pool's workers differ by at most 1 after any number of
\* tasks, whatever workers the pool contains (warmed-up workers included).
C20_EvenDistribution == Spread <= 1

\* C20 amended: with tasks submitted one at a time to a pool warmed up (if at
\* all) before the first task, the counts differ by at most 1 as long as no
\* acquisition was an affinity hit.
C20_EvenDistributionWithoutAffinity ==
  metrics.affinityHits = 0 => Spread <= 1

\* three different callables ran on a warmed-up pool of two: counts 2 and 1
C20_Witness ==
  /\ ~config.lowMemoryMode
  /\ metrics.affinityHits = 0 /\ metrics.affinityMisses = 3
  /\ Len(pools["normal"]) = 2
  /\ workers[pools["normal"][1]].tasksExecuted = 2
  /\ workers[pools["normal"][2]].tasksExecuted = 1

\* the pool entries of a type with the given busy flag
EntriesWith(pt, flag) ==
  {i \in 1..Len(pools[pt]) : workers[pools[pt][i]].busy = flag}

\* C21: for each pool type busyCount equals the number of pool entries with
\* busy = true, idleCount the number with busy = false, and neither counter
\* is negative, also after a worker exited while its task was in flight.
C21_CountersMatchFlags ==
  \A pt \in PoolTypes :
    /\ poolCounters[pt].busy = Cardinality(EntriesWith(pt, TRUE))
    /\ poolCounters[pt].idle = Cardinality(EntriesWith(pt, FALSE))
    /\ poolCounters[pt].busy >= 0
    /\ poolCounters[pt].idle >= 0

\* the calls that settle in this step after having acquired a worker
Settling == {t \in Tasks : tasks[t].st = "running" /\ tasks'[t].st = "done"}

\* C22: a call that acquired a worker settles once, with the outcome of the
\* first of reply, worker error, worker exit, timeout and abort; that step
\* releases its worker once and adds one to exactly one of
\* totalTasksExecuted and totalTasksFailed; once settled, nothing changes
\* the call, and an abort arriving then leaves the workers as they are.
C22_SingleShotSettle ==
  [][/\ Cardinality(Settling) <= 1
     /\ metrics'.totalTasksExecuted + metrics'.totalTasksFailed
          = metrics.totalTasksExecuted + metrics.totalTasksFailed
              + Cardinality(Settling)
     /\ metrics'.totalTasksExecuted >= metrics.totalTasksExecuted
     /\ metrics'.totalTasksFailed >= metrics.totalTasksFailed
     /\ \A t \in Tasks :
          /\ tasks[t].st = "done" => tasks'[t] = tasks[t]
          /\ (tasks[t].st = "done" /\ LateAbort(t)) => workers' = workers
          /\ t \in Settling =>
               LET w == tasks[t].worker
               IN /\ (Reply(t, TRUE))
                       <=> (tasks'[t].outcome = "value"
                            /\ metrics'.totalTasksExecuted
                                 = metrics.totalTasksExecuted + 1)
                  /\ Timeout(t) => tasks'[t].error = "TIMEOUT"
                  /\ Abort(t) => tasks'[t].error = "ABORTED"
                  /\ tasks'[t].outcome \in {"value", "throw"}
                  /\ IF tasks[t].temporary
                     THEN metrics'.temporaryWorkerTasks
                            = metrics.temporaryWorkerTasks + 1
                     ELSE /\ metrics'.temporaryWorkerTasks
                               = metrics.temporaryWorkerTasks
                          /\ \/ workers'[w] = Collected
                             \/ workers'[w].tasksExecuted
                                  = workers[w].tasksExecuted + 1]_vars

\* a call with a timeout and an abortable call have both settled by reply,
\* their workers are idle and online: a timer or an abort arriving now finds
\* no handler
C22_Witness ==
  /\ metrics.totalTasksExecuted = 2
  /\ metrics.totalTasksFailed = 1
  /\ \A t \in Tasks : tasks[t].st = "done"
  /\ \E t \in Tasks : tasks[t].error = "TIMEOUT"
  /\ \E w \in Workers : workers[w].state = "online" /\ ~workers[w].busy
                         /\ workers[w].tasksExecuted >= 1

\* the entries the in-flight map should hold: one per future that a miss
\* installed and that has not settled
InstalledPending(c) ==
  {<<c.promises[p].hook, p>> :
     p \in {q \in 1..Len(c.promises) :
              c.promises[q].hook # <<>> /\ c.promises[q].st = "pending"}}
InFlightKeys(c) == {e[1] : e \in c.inFlightPromises}
CallKey(call) ==
  createRequestKey(call.fnString, call.args, call.context,
                   fastHash(call.fnString))

Acquires(t) ==
  /\ tasks[t].st \in {"new", "sleeping"}
  /\ tasks'[t] # tasks[t]
  /\ \/ tasks'[t].st \in {"running", "queued"}
     \/ tasks'[t].error = "QUEUE_FULL"

\* C24: strategy order of acquire: a submission gets a new pooled worker only
\* when no entry of its pool is idle, a temporary worker only when in
\* addition the pool holds poolSize entries, and is enqueued (or rejected by
\* the queue bound) only when in addition activeTemporaryWorkers equals
\* maxTemporaryWorkers; while an idle pooled entry exists the submission is
\* given one of the idle entries.
C24_StrategyOrder ==
  [][\A t \in Tasks : Acquires(t) =>
       LET pt == tasks[t].poolType
           idle == EntriesWith(pt, FALSE)
           granted == tasks'[t].st = "running"
           w == tasks'[t].worker
       IN /\ (granted /\ ~tasks'[t].temporary /\ w > Len(workers))
               => /\ idle = {}
                  /\ Len(pools[pt]) < config.poolSize
          /\ (granted /\ tasks'[t].temporary)
               => /\ idle = {}
                  /\ Len(pools[pt]) = config.poolSize
                  /\ metrics.activeTemporaryWorkers
                       < config.maxTemporaryWorkers
          /\ ~granted
               => /\ idle = {}
                  /\ Len(pools[pt]) = config.poolSize
                  /\ metrics.activeTemporaryWorkers
                       = config.maxTemporaryWorkers
          /\ idle # {}
               => /\ granted /\ ~tasks'[t].temporary
                  /\ \E i \in idle : pools[pt][i] = w]_vars

\* every strategy was used: a task runs on a pooled entry, another on a
\* temporary worker and a third waits in the queue of the full pool
C24_Witness ==
  /\ \E t \in Tasks : /\ Running(t) /\ ~tasks[t].temporary
                      /\ InPool("normal", tasks[t].worker)
  /\ \E t \in Tasks : Running(t) /\ tasks[t].temporary
  /\ \E t \in Tasks : Queued(t)
  /\ Len(pools["normal"]) = config.poolSize
  /\ metrics.activeTemporaryWorkers = config.maxTemporaryWorkers

\* the idle entries of a pool whose affinity set holds the fingerprint
AffinityMatches(pt, fnHash) ==
  {i \in EntriesWith(pt, FALSE) :
     fnHash \in workers[pools[pt][i]].cachedFunctions}

\* the entries strategy 2 may return: the first fresh idle entry, else the
\* first idle entry with the fewest tasks executed
LeastUsed(pt) ==
  LET idle == EntriesWith(pt, FALSE)
      fresh == {i \in idle : workers[pools[pt][i]].tasksExecuted = 0}
      least == {i \in idle : \A j \in idle :
                  workers[pools[pt][i]].tasksExecuted
                    <= workers[pools[pt][j]].tasksExecuted}
  IN IF fresh # {} THEN Min(fresh) ELSE Min(least)

\* C25: affinity preference: when a submission with a fingerprint finds idle
\* entries whose affinity set contains it, it is given the first of them in
\* pool order, whatever the task counts of the other idle entries, and
\* affinityHits grows by one; when idle entries exist and none contains the
\* fingerprint, affinityMisses grows by one and the least-used idle entry is
\* given.
C25_AffinityPreference ==
  [][\A t \in Tasks : Acquires(t) =>
       LET pt == tasks[t].poolType
           hit == AffinityMatches(pt, tasks'[t].fn)
       IN /\ hit # {} =>
               /\ tasks'[t].st = "running"
               /\ tasks'[t].worker = pools[pt][Min(hit)]
               /\ metrics'.affinityHits = metrics.affinityHits + 1
               /\ metrics'.affinityMisses = metrics.affinityMisses
          /\ (EntriesWith(pt, FALSE) # {} /\ hit = {}) =>
               /\ tasks'[t].st = "running"
               /\ tasks'[t].worker = pools[pt][LeastUsed(pt)]
               /\ metrics'.affinityMisses = metrics.affinityMisses + 1
               /\ metrics'.affinityHits = metrics.affinityHits]_vars

\* a hit on the first entry although the second idle entry, which has run
\* the same callable, has executed fewer tasks; one miss was counted before
C25_Witness ==
  /\ Len(pools["normal"]) = 2
  /\ \E t \in Tasks :
       /\ Running(t) /\ tasks[t].worker = pools["normal"][1]
       /\ tasks[t].fn \in workers[pools["normal"][2]].cachedFunctions
       /\ tasks[t].fn \in workers[pools["normal"][1]].cachedFunctions
  /\ ~workers[pools["normal"][2]].busy
  /\ workers[pools["normal"][2]].tasksExecuted
       < workers[pools["normal"][1]].tasksExecuted
  /\ metrics.affinityHits = 1 /\ metrics.affinityMisses = 1
  /\ Cardinality({t \in Tasks : tasks[t].st = "done"}) = 3

\* the pooled tasks whose release happens in the step, and the counters their
\* release starts from: when the step is the 'exit' event of the worker, the
\* pool's exit listener has run before the task's
Releasing == {t \in Settling : ~tasks[t].temporary}
Exiting(w) == workers[w].state # "exited" /\ workers'[w].state = "exited"
CountersAtRelease(w) ==
  IF Exiting(w) /\ workers[w].poolExitListener
  THEN poolExitHandler(State, w).poolCounters
  ELSE poolCounters

\* C26: hand-off leaves the pool state untouched: when the release of a
\* pooled entry finds a queued waiter, the highest-priority waiter is
\* dispatched on the same entry, the entry stays busy and release changes
\* neither busyCount nor idleCount; only when the queue is empty does release
\* clear busy, move one unit from busyCount to idleCount and arm the idle
\* timer.
C26_HandoffFrame ==
  [][\A t \in Releasing :
       LET w == tasks[t].worker
           pt == tasks[t].poolType
           dq == dequeueTask(queues[pt])
           base == CountersAtRelease(w)
       IN /\ workers[w].busy
          /\ dq.task # 0 =>
               /\ tasks'[dq.task].st = "running"
               /\ tasks'[dq.task].worker = w
               /\ tasks'[dq.task].via = "handoff"
               /\ ~tasks'[dq.task].temporary
               /\ queues'[pt] = dq.queue
               /\ workers'[w].busy
               /\ ~workers'[w].terminationTimer
               /\ poolCounters' = base
          /\ dq.task = 0 =>
               /\ queues' = queues
               /\ \/ workers'[w] = Collected
                  \/ ~workers'[w].busy /\ workers'[w].terminationTimer
               /\ poolCounters' =
                    [base EXCEPT ![pt].busy = @ - 1, ![pt].idle = @ + 1]]_vars

\* two hand-offs in a row, then a release with the queue empty: the last
\* waiter has settled, the entry is idle with its timer armed
C26_Witness ==
  /\ \A t \in Tasks : tasks[t].st = "done"
  /\ metrics.totalTasksExecuted = Cardinality(Tasks)
  /\ Len(pools["normal"]) = 1 /\ Len(workers) = 1
  /\ ~workers[1].busy /\ workers[1].terminationTimer
  /\ workers[1].tasksExecuted = Cardinality(Tasks)
  /\ poolCounters["normal"] = [busy |-> 0, idle |-> 1]

\* the step is the idle timer of w firing and terminating the worker: no
\* call is involved and the worker goes from online to terminating
TimerTerminates(w) ==
  /\ tasks' = tasks
  /\ workers[w].terminationTimer
  /\ workers[w].state = "online" /\ workers'[w].state = "terminating"

\* the tasks dispatched in the step, by getWorker or by hand-off
Dispatched == {t \in Tasks : tasks[t].st # "running" /\ tasks'[t].st = "running"}

\* C27: idle reclamation guard: a firing idle timer terminates its worker
\* only if the entry is not busy and the pool holds more than
\* max(minThreads, 1) entries; an acquisition (strategy 1 or 2, or hand-off)
\* cancels the pending timer of the entry, so no worker that is running a
\* task has a timer pending or is terminated by one.
C27_IdleReclamationGuard ==
  [][/\ \A w \in Workers : TimerTerminates(w) =>
          LET pt == workers[w].poolType
              minToKeep == IF config.minThreads > 1 THEN config.minThreads
                           ELSE 1
          IN /\ ~workers[w].busy
             /\ InPool(pt, w)
             /\ Len(pools[pt]) > minToKeep
             /\ \A t \in Tasks : ~(Running(t) /\ tasks[t].worker = w)
     /\ \A t \in Dispatched :
          ~workers'[tasks'[t].worker].terminationTimer
     /\ \A t \in Tasks :
          tasks'[t].st = "running" =>
            ~workers'[tasks'[t].worker].terminationTimer]_vars

\* an entry was released with its timer armed, taken again by a later
\* submission, and its task runs with no timer pending while the other idle
\* entry of the pool was terminated by its timer
C27_Witness ==
  /\ Len(pools["normal"]) = 2 /\ config.minThreads = 0
  /\ \E t \in Tasks :
       /\ Running(t) /\ tasks[t].worker = pools["normal"][1]
       /\ workers[tasks[t].worker].tasksExecuted = 1
       /\ ~workers[tasks[t].worker].terminationTimer
  /\ workers[pools["normal"][2]].state = "terminating"
  /\ ~workers[pools["normal"][2]].timedOut
  /\ ~workers[pools["normal"][2]].busy

\* the pooled workers that can still emit 'exit'
LivePooled == {w \in Workers : InPool(workers[w].poolType, w)
                                 /\ workers[w].state # "exited"}
Holds(s, w) ==
  \E i \in 1..Len(s.pools[s.workers[w].poolType]) :
    s.pools[s.workers[w].poolType][i] = w

C30_PartitionCoversInput ==
  (turbo.kind = "map" /\ Len(turbo.data) >= 1) =>
    LET b == turbo.chunkBounds
        N == Len(turbo.data)
    IN /\ Len(b) >= 1
       /\ b[1].start = 0
       /\ \A i \in 1..Len(b) : b[i].start < b[i].end
       /\ \A i \in 1..(Len(b) - 1) : b[i + 1].start = b[i].end
       /\ b[Len(b)].end = N
       /\ turbo.phase = "fulfilled" => Len(turbo.result) = N

\* C31: stream cleanup is idempotent: for one stream execution, however END,
\* ERROR, worker error, worker exit and consumer cancel interleave or repeat,
\* release is called at most once, and exactly once if a worker was acquired
\* and one of those events has occurred (cleanup has run).
C31_StreamCleanupOnce ==
  \A t \in DOMAIN streams :
    /\ streams[t].releases <= 1
    /\ (tasks[t].worker # NoWorker /\ streams[t].closed)
         => streams[t].releases = 1

\* C32: no task is dispatched to a dead worker: the worker a task is
\* dispatched on, by getWorker or by the hand-off of a release, has not
\* exited and has not had terminate() called on it.
C32_NoDispatchToDeadWorker ==
  [][\A t \in Dispatched :
       workers'[tasks'[t].worker].state = "online"]_vars

\* C33: no barging: while the queue of a pool is non-empty, a newly arriving
\* acquisition on that pool is not granted a worker ahead of the queued
\* waiters.
C33_NoBarging ==
  [][\A t \in Tasks :
       (Acquires(t) /\ getQueueLength(queues[tasks[t].poolType]) > 0)
         => tasks'[t].st # "running"]_vars

\* the step is the delivery of a message that the worker posted on behalf of
\* an earlier, already settled task
LateDelivery(w) ==
  /\ workers[w].outbox # <<>>
  /\ Head(workers[w].outbox).late
  /\ workers'[w].outbox = Tail(workers[w].outbox)

\* C34: reply attribution: a task is settled only by a message its own
\* request produced; the delivery of a late message of an earlier, already
\* settled task settles no task.
C34_ReplyAttribution ==
  [][\A w \in Workers : LateDelivery(w) => Settling = {}]_vars

\* C35: the completion hook of the coalescer removes only the entry it
\* installed: the settlement of a future removes from the in-flight map no
\* entry that holds another future (after clearInFlightPromises() the key of
\* an in-flight request can be installed again by an identical request).
C35_HookRemovesOwnEntry ==
  [][\A p \in 1..Len(coalescer.promises) :
       (/\ coalescer.promises[p].st = "pending"
        /\ coalescer'.promises[p].st # "pending")
         => \A e \in coalescer.inFlightPromises :
              e \notin coalescer'.inFlightPromises => e[2] = p]_vars

\* C36: no stream worker leak: every worker granted to a stream execution is
\* eventually released, also when the consumer cancelled the stream before
\* the acquisition had resolved.
C36_NoStreamWorkerLeak ==
  \A t \in 1..MaxStreams :
    (t \in DOMAIN streams /\ tasks[t].st = "running")
      ~> (tasks[t].st = "done")

\* C37: a turbo operation cannot deadlock on acquisition: while it waits for
\* its batched worker requests, some worker is held by a task that will
\* release it, that is, by something else than the operation's own chunks
\* that wait for the same batch before they are dispatched.
C37_TurboAcquisitionCanProceed ==
  turbo.phase = "acquiring" =>
    \E t \in Tasks :
      /\ Running(t)
      /\ ~ \E i \in DOMAIN turbo.chunks :
             turbo.chunks[i].task = t /\ turbo.chunks[i].st = "acquiring"

\* C38: when one of the batched acquisitions of a turbo operation is rejected
\* with QUEUE_FULL the operation rejects and no chunk keeps a worker: the busy
\* count of the pool and activeTemporaryWorkers are back at their values from
\* before the operation (0: the operation is the only user of the pool).
C38_TurboReleasesOnQueueFull ==
  (turbo.phase = "rejected" /\ turbo.error = QueueFull) =>
    /\ \A i \in DOMAIN turbo.chunks : ~Running(turbo.chunks[i].task)
    /\ poolCounters.normal.busy = 0
    /\ metrics.activeTemporaryWorkers = 0

\* C39: turbo survives worker death: no dispatched chunk (or single-worker
\* dispatch) is left waiting for an answer on a worker that has exited; the
\* exit settles the chunk and performs its release.
C39_TurboSurvivesWorkerDeath ==
  \A i \in DOMAIN turbo.chunks :
    turbo.chunks[i].st = "pending" =>
      workers[tasks[turbo.chunks[i].task].worker].state # "exited"

\* the entries of pool pt whose worker has not been terminated, after the step
OnlineAfter(pt) ==
  {i \in 1..Len(pools'[pt]) : workers'[pools'[pt][i]].state = "online"}

\* C40: idle reclamation keeps the pool floor: whenever an idle timer
\* terminates a worker, at least max(minThreads, 1) workers of that pool are
\* left that have not been terminated, also when several idle timers fire
\* before any of the resulting exit events has been processed.
C40_IdleReclamationKeepsFloor ==
  [][\A w \in Workers : TimerTerminates(w) =>
       LET minToKeep == IF config.minThreads > 1 THEN config.minThreads ELSE 1
       IN Cardinality(OnlineAfter(workers[w].poolType)) >= minToKeep]_vars

====
